---- MODULE Spec2Model ----
(***************************************************************************)
(* Model of the Deluge torrent manager: deluge/core/torrentmanager.py      *)
(* (TorrentManager) and deluge/core/torrent.py (Torrent).                  *)
(*                                                                         *)
(* The libtorrent session is the environment.  A handle is a record of the *)
(* values the code reads from it (is_paused, is_auto_managed, status()).   *)
(* Alerts the engine has posted or will post are kept per job in arrival   *)
(* order; there is no order between alerts of different jobs.              *)
(***************************************************************************)
EXTENDS Integers, Sequences, FiniteSets, TLC

\* ------------------------------------------------------------------ bounds
NumIds == 2
\* the number of commands, timer ticks and engine transitions of one run
MaxOps == 4
\* the alerts in flight for one job
MaxAlerts == 2
\* the commands of one run when add is called by every caller on every path
MaxAddOps == 2
\* the alerts in flight for one job while files are renamed
MaxRenameAlerts == 4
\* the rename commands in one behaviour
MaxRenames == 2

Ids == 1..NumIds

\* ------------------------------------------------------- values of fields
\* names of the libtorrent states the code looks up in LT_TORRENT_STATE
LtStates ==
  {"Queued", "Checking", "Downloading Metadata", "Downloading",
   "Finished", "Seeding", "Allocating", "Checking Resume Data"}

\* every value Torrent.state can take
TorrentStates == LtStates \cup {"Error", "Paused"}

\* status().error: the empty string or a message
Errors == {"", "disk full"}

\* the accounts the AuthManager knows, and the sessions that make calls
Users == {"alice", "bob"}
Callers ==
  {[user |-> "alice", admin |-> FALSE],
   [user |-> "bob", admin |-> FALSE],
   [user |-> "bob", admin |-> TRUE]}

\* the blobs a save_resume_data_alert can carry
Blobs == {"r1"}

\* a dict with no keys
EmptyMap == [x \in {} |-> 0]

Pop(d, k) == [x \in (DOMAIN d) \ {k} |-> d[x]]
Update(d, e) == [x \in (DOMAIN d) \cup (DOMAIN e) |-> IF x \in DOMAIN e THEN e[x] ELSE d[x]]
Put(d, k, v) == [x \in (DOMAIN d) \cup {k} |-> IF x = k THEN v ELSE d[x]]
Min(S) == CHOOSE x \in S : \A y \in S : x <= y

Range(f) == {f[x] : x \in DOMAIN f}

\* what stands for the id in the record of an operation that takes none
NoId == Min(Ids) - 1

VARIABLES
  torrents,        \* TorrentManager.torrents: torrent_id -> Torrent
  session,         \* the handles the libtorrent session holds: torrent_id -> handle
  session_paused,  \* session.is_paused()
  alerts,          \* per job, the alerts in flight from the engine, oldest first
  queued_torrents, \* TorrentManager.queued_torrents
  shutdown_torrent_pause_list,
  num_resume_data, \* TorrentManager.num_resume_data
  resume_data,     \* TorrentManager.resume_data: torrent_id -> blob, not yet on disk
  fastresume_file, \* state/torrents.fastresume: torrent_id -> blob
  state_file,      \* state/torrents.state: torrent_id -> TorrentState
  torrent_files,   \* the ids with a state/<id>.torrent file
  timers_running,  \* save_state_timer.running and save_resume_data_timer.running
  pc,              \* where the component is in its life: start(), stop()'s loop
  wait,            \* the local of TorrentManager.stop
  save_resume_data_list, \* the local of TorrentManager.stop
  lastop,          \* the operation that ran last, its arguments and result
  oplog,           \* what the last operation did, in order
  delivered,       \* per job and session, the value get_status last returned
                   \* for each field in a diff call
  renaming,        \* per job, the folder renames issued, oldest first, each with
                   \* the files whose file_renamed alert has not been handled
  ops              \* the commands, timer ticks and engine transitions so far

vars == <<torrents, session, session_paused, alerts, queued_torrents,
          shutdown_torrent_pause_list, num_resume_data, resume_data,
          fastresume_file, state_file, torrent_files, timers_running, pc, wait,
          save_resume_data_list, lastop, oplog, delivered, renaming, ops>>

SessionIds == {"s1", "s2"}

NoneDelivered == [t \in Ids |-> [sid \in SessionIds |-> EmptyMap]]

\* The state as one record, with an empty log: what an operation starts from.
St ==
  [torrents |-> torrents, session |-> session, session_paused |-> session_paused,
   alerts |-> alerts, queued_torrents |-> queued_torrents,
   shutdown_torrent_pause_list |-> shutdown_torrent_pause_list,
   num_resume_data |-> num_resume_data, resume_data |-> resume_data,
   fastresume_file |-> fastresume_file, state_file |-> state_file,
   torrent_files |-> torrent_files, timers_running |-> timers_running,
   oplog |-> <<>>, io |-> "ok", crashed |-> FALSE]

\* The state an operation leaves.
Commit(s) ==
  /\ torrents' = s.torrents
  /\ session' = s.session
  /\ session_paused' = s.session_paused
  /\ alerts' = s.alerts
  /\ queued_torrents' = s.queued_torrents
  /\ shutdown_torrent_pause_list' = s.shutdown_torrent_pause_list
  /\ num_resume_data' = s.num_resume_data
  /\ resume_data' = s.resume_data
  /\ fastresume_file' = s.fastresume_file
  /\ state_file' = s.state_file
  /\ torrent_files' = s.torrent_files
  /\ timers_running' = s.timers_running
  /\ oplog' = s.oplog

\* One entry of the log: an event emitted, an engine command or a file write,
\* with the ids the registry and the session held at that moment.
Log(s, k, id, arg) ==
  [s EXCEPT !.oplog = Append(@, [k |-> k, id |-> id, arg |-> arg,
                                 reg |-> DOMAIN s.torrents,
                                 ses |-> DOMAIN s.session])]

\* What lastop records: the operation, its arguments, its result and the ids
\* the registry held when it was called.
Op(name, id, res, arg) ==
  [op |-> name, id |-> id, res |-> res, arg |-> arg,
   c |-> [user |-> "", admin |-> FALSE], trackers |-> <<>>,
   add_paused |-> FALSE, reg |-> DOMAIN torrents]

\* The engine posts an alert for job t.
post(s, t, type) == [s EXCEPT !.alerts[t] = Append(@, type)]

\* an error that leaves the engine's auto-management as it is
\* the state left as it was until a branch assigns it
ltstate_name_kept(tor, h) == tor.state

\* self.state = LTSTATE[ltstate], before any of the branches
ltstate_name(tor, h) == h.ltstate

error_handle_untouched(h) == h
\* if self.handle.is_paused(): self.handle.auto_managed(False)
error_handle(h) == IF h.paused THEN [h EXCEPT !.auto_managed = FALSE] ELSE h

\* ------------------------------------------------------ Torrent.update_state
\* update_state with the error test after the Queued/Checking branch
update_state_error_last(tor, h, sp) ==
  IF h.ltstate = "Queued" \/ h.ltstate = "Checking"
  THEN [torrent |-> [tor EXCEPT !.state = IF h.paused THEN "Paused" ELSE "Checking"],
        handle  |-> h]
  ELSE IF h.error # ""
  THEN [torrent |-> [tor EXCEPT !.state = "Error", !.statusmsg = h.error],
        handle  |-> IF h.paused THEN [h EXCEPT !.auto_managed = FALSE] ELSE h]
  ELSE
    LET coarse ==
          IF h.ltstate = "Downloading" \/ h.ltstate = "Downloading Metadata"
          THEN "Downloading"
          ELSE IF h.ltstate = "Finished" \/ h.ltstate = "Seeding"
          THEN "Seeding"
          ELSE IF h.ltstate = "Allocating"
          THEN "Allocating"
          ELSE h.ltstate
    IN [torrent |-> [tor EXCEPT !.state =
                       IF h.paused /\ h.auto_managed /\ ~sp
                       THEN "Queued"
                       ELSE IF sp \/ (h.paused /\ ~h.auto_managed)
                       THEN "Paused"
                       ELSE coarse],
        handle |-> h]

\* Returns the torrent and the handle as update_state leaves them.
update_state(tor, h, sp) ==
  LET initial == ltstate_name(tor, h)
  IN
  IF h.error # ""
  THEN [torrent |-> [tor EXCEPT !.state = "Error", !.statusmsg = h.error],
        handle  |-> error_handle(h)]
  ELSE IF h.ltstate = "Queued" \/ h.ltstate = "Checking"
  THEN [torrent |-> [tor EXCEPT !.state = IF h.paused THEN "Paused" ELSE "Checking"],
        handle  |-> h]
  ELSE
    LET coarse ==
          IF h.ltstate = "Downloading" \/ h.ltstate = "Downloading Metadata"
          THEN "Downloading"
          ELSE IF h.ltstate = "Finished" \/ h.ltstate = "Seeding"
          THEN "Seeding"
          ELSE IF h.ltstate = "Allocating"
          THEN "Allocating"
          ELSE initial
        final ==
          IF h.paused /\ h.auto_managed /\ ~sp
          THEN "Queued"
          ELSE IF sp \/ (h.paused /\ ~h.auto_managed)
          THEN "Paused"
          ELSE coarse
    IN [torrent |-> [tor EXCEPT !.state = final], handle |-> h]


\* the registry and the session with what update_state returned
set_state(s, t, r) == [s EXCEPT !.torrents[t] = r.torrent, !.session[t] = r.handle]

\* update_state of a registered torrent, on the handle the session holds
torrent_update_state(s, t) ==
  set_state(s, t, update_state(s.torrents[t], s.session[t], s.session_paused))

\* the entry appended when the condition holds
LogIf(cond, s, k, id, arg) == IF cond THEN Log(s, k, id, arg) ELSE s

\* ------------------------------------------------------------ Torrent methods
\* Torrent.save_resume_data: the engine answers later with an alert.
torrent_save_resume_data(s, t) ==
  [post(Log(s, "handle.save_resume_data", t, ""), t, "save_resume_data")
     EXCEPT !.torrents[t].waiting_on_resume_data = TRUE]

\* Torrent.set_trackers with a list: replaces the engine's trackers too.
set_trackers(s, t, trackers) ==
  LogIf(Len(trackers) > 0,
        [s EXCEPT !.session[t].trackers = trackers, !.torrents[t].trackers = trackers],
        "handle.force_reannounce", t, "")

\* Torrent.pause after set_auto_managed(False)
pause_handle(s, t) ==
  IF s.session[t].paused
  THEN Log(torrent_update_state(s, t), "TorrentStateChangedEvent", t, "Paused")
  ELSE post(Log([s EXCEPT !.session[t].paused = TRUE], "handle.pause", t, ""),
            t, "torrent_paused")

\* Torrent.pause
torrent_pause(s, t) ==
  pause_handle(Log([s EXCEPT !.session[t].auto_managed = FALSE],
                   "handle.auto_managed", t, "False"), t)

\* Torrent.resume: handle.auto_managed(options["auto_managed"])
resume_auto_managed(s, t) ==
  IF s.torrents[t].auto_managed
  THEN Log([s EXCEPT !.session[t].auto_managed = TRUE], "handle.auto_managed", t, "True")
  ELSE s

\* Torrent.resume: handle.resume(); the engine reports a resume of a paused handle
resume_handle(s, t) ==
  IF s.session[t].paused
  THEN post(Log([s EXCEPT !.session[t].paused = FALSE], "handle.resume", t, ""),
            t, "torrent_resumed")
  ELSE Log(s, "handle.resume", t, "")

\* Torrent.get_ratio() >= stop_ratio: all_time_upload / total_done, or -1.0
\* when nothing is done
get_ratio_reaches(h, stop_ratio) ==
  IF h.total_done > 0
  THEN h.all_time_upload >= stop_ratio * h.total_done
  ELSE -1 >= stop_ratio

\* Torrent.resume: a finished torrent that has reached its stop ratio is left alone
resume_at_stop_ratio(s, t) ==
  /\ s.session[t].ltstate \in {"Finished", "Seeding"}
  /\ s.torrents[t].stop_at_ratio
  /\ get_ratio_reaches(s.session[t], s.torrents[t].stop_ratio)

\* Torrent.resume
torrent_resume(s, t) ==
  IF s.session[t].paused /\ s.session[t].auto_managed
  THEN s
  ELSE IF resume_at_stop_ratio([s EXCEPT !.torrents[t].statusmsg = "OK"], t)
  THEN [s EXCEPT !.torrents[t].statusmsg = "OK"]
  ELSE resume_handle(resume_auto_managed([s EXCEPT !.torrents[t].statusmsg = "OK"], t), t)

\* ------------------------------------------------------- Torrent.get_status
\* full_status, for three of its fields
full_status(s, t) ==
  [state |-> s.torrents[t].state, paused |-> s.session[t].paused,
   tracker_status |-> s.torrents[t].tracker_status]

\* fns, for one of its fields
fns(s, t) == [is_seed |-> s.session[t].ltstate = "Seeding"]

\* the desired status dictionary: every field for no keys, else the keys
\* that name a field
status_dict(s, t, keys) ==
  IF keys = {} THEN full_status(s, t) @@ fns(s, t)
  ELSE [key \in {k \in keys : k \in DOMAIN full_status(s, t) \cup DOMAIN fns(s, t)} |->
          IF key \in DOMAIN full_status(s, t) THEN full_status(s, t)[key]
          ELSE fns(s, t)[key]]

\* the fields whose value is not the one prev holds
status_diff(status, prev) ==
  [key \in {k \in DOMAIN status : k \notin DOMAIN prev \/ status[k] # prev[k]} |->
     status[key]]

\* self.prev_status[session_id] = status_dict
store_prev_status_forgets(s, t, session_id, status) == s

store_prev_status(s, t, session_id, status) ==
  [s EXCEPT !.torrents[t].prev_status = Put(@, session_id, status)]

\* Torrent.get_status: the state it leaves and the dictionary it returns
get_status(s, t, keys, diff, session_id) ==
  IF ~diff THEN [s |-> s, res |-> status_dict(s, t, keys)]
  ELSE [s |-> store_prev_status(s, t, session_id, status_dict(s, t, keys)),
        res |-> IF session_id \in DOMAIN s.torrents[t].prev_status
                THEN status_diff(status_dict(s, t, keys),
                                 s.torrents[t].prev_status[session_id])
                ELSE status_dict(s, t, keys)]

\* ---------------------------------------------------------------- persistence
\* The record save_state writes for one torrent.
TorrentState(tor) ==
  [trackers |-> tor.trackers, paused |-> (tor.state = "Paused"),
   auto_managed |-> tor.auto_managed, is_finished |-> tor.is_finished,
   owner |-> tor.owner, shared |-> tor.shared, magnet |-> tor.magnet,
   stop_at_ratio |-> tor.stop_at_ratio, stop_ratio |-> tor.stop_ratio,
   remove_at_ratio |-> tor.remove_at_ratio]

\* What the file system does to the writes of one operation: "ok", "fails"
\* (open raises IOError before the file is touched) or "crash" (the process
\* dies after open(path, "wb") truncated the file and before any byte of the
\* new content is on disk).  s.crashed: the process died earlier in this
\* operation, nothing after that point touches a file.
IoOutcomes == {"ok", "fails", "crash"}

\* open(".../torrents.state.new", "wb"), dump, flush, fsync, close, then
\* shutil.move onto torrents.state: the canonical file changes only by the
\* rename, and only when the temporary file was written completely.
write_state_file(s, data) ==
  IF s.crashed THEN s
  ELSE Log([s EXCEPT !.state_file = IF s.io = "ok" THEN data ELSE @,
                     !.crashed = (s.io = "crash")],
           "write torrents.state", NoId, [io |-> s.io, data |-> data])

\* TorrentManager.save_state; the value it returns is True on every path
save_state(s) ==
  write_state_file(s, [t \in DOMAIN s.torrents |-> TorrentState(s.torrents[t])])

save_state_returns(s) == "True"

\* TorrentManager.load_resume_data_file: a file that cannot be decoded loads
\* as the empty dictionary
load_resume_data_file(s) == s.fastresume_file

\* resume_data.update(self.resume_data) with the whole batch lost
resume_data_replace(base, batch) == batch
\* resume_data.update(self.resume_data)
resume_data_update(base, batch) == Update(base, batch)

\* open(".../torrents.fastresume", "wb"), write, flush, fsync, close inside
\* try/except IOError: the canonical file itself is opened for writing.
\* before is the state at the call of save_resume_data_file.
write_fastresume_file(s, data, before) ==
  IF s.crashed THEN s
  ELSE Log([s EXCEPT !.fastresume_file = CASE s.io = "ok" -> data
                                           [] s.io = "fails" -> @
                                           [] s.io = "crash" -> EmptyMap,
                     !.crashed = (s.io = "crash")],
           "write torrents.fastresume", NoId,
           [io |-> s.io, data |-> data, num |-> before.num_resume_data,
            batch |-> before.resume_data, disk |-> before.fastresume_file])

\* save_resume_data_file that does not look at the counter of pending requests
save_resume_data_file_any_counter(s, given) ==
  IF s.resume_data = EmptyMap
  THEN s
  ELSE write_fastresume_file(
         [s EXCEPT !.resume_data = EmptyMap],
         resume_data_update(IF given.none THEN load_resume_data_file(s) ELSE given.data,
                            s.resume_data),
         s)
\* TorrentManager.save_resume_data_file(resume_data); given.none stands for
\* the argument None.  self.resume_data = {} comes before the try.
save_resume_data_file(s, given) ==
  IF s.num_resume_data # 0 \/ s.resume_data = EmptyMap
  THEN s
  ELSE write_fastresume_file(
         [s EXCEPT !.resume_data = EmptyMap],
         resume_data_update(IF given.none THEN load_resume_data_file(s) ELSE given.data,
                            s.resume_data),
         s)

NoneArg == [none |-> TRUE, data |-> EmptyMap]
DictArg(d) == [none |-> FALSE, data |-> d]

\* TorrentManager.save_resume_data(torrent_ids)
RECURSIVE save_resume_data_each(_, _)
save_resume_data_each(s, ids) ==
  IF ids = {} THEN s
  ELSE save_resume_data_each(torrent_save_resume_data(s, Min(ids)), ids \ {Min(ids)})

save_resume_data(s, ids) ==
  [save_resume_data_each(s, ids) EXCEPT !.num_resume_data = Cardinality(ids)]

\* a list that leaves out every job of another owner
get_torrent_list_own_only(s, c) ==
  IF c.admin
  THEN DOMAIN s.torrents
  ELSE {t \in DOMAIN s.torrents : s.torrents[t].owner = c.user}

\* TorrentManager.get_torrent_list for the session of caller c
get_torrent_list(s, c) ==
  IF c.admin
  THEN DOMAIN s.torrents
  ELSE {t \in DOMAIN s.torrents :
          ~(s.torrents[t].owner # c.user /\ s.torrents[t].shared = FALSE)}


\* ----------------------------------------------------------- the libtorrent session
\* an add that lets the engine hand back the handle it already holds
duplicate_is_error_off == FALSE

\* add_torrent_params["duplicate_is_error"]
duplicate_is_error == TRUE

\* the handle session.add_torrent creates: paused, not auto-managed
NewHandle(trackers) ==
  [paused |-> TRUE, auto_managed |-> FALSE, ltstate |-> "Checking Resume Data",
   error |-> "", payload |-> 0, trackers |-> trackers,
   total_done |-> 0, all_time_upload |-> 0,
   file_priorities |-> <<1, 1>>, queue_position |-> -1]

\* AuthManager.has_account
has_account(owner) == owner \in Users

\* ------------------------------------------------------------ Torrent.__init__
\* the fields every new Torrent starts with, whatever it is built from
TorrentFields ==
  [forcing_recheck |-> FALSE, forcing_recheck_paused |-> FALSE,
   tracker_status |-> "", move_completed |-> TRUE, download_location |-> "dir",
   move_completed_path |-> "dir", file_priorities |-> <<1, 1>>,
   waiting_on_folder_rename |-> <<>>, prev_status |-> EmptyMap]

\* TorrentOptions(): the ratio options as the configuration gives them
TorrentOptions == [stop_at_ratio |-> FALSE, stop_ratio |-> 2, remove_at_ratio |-> FALSE]

\* the trackers of the new Torrent: the saved ones or the handle's
init_trackers(h, a) == IF a.path = "state" THEN a.state.trackers ELSE h.trackers

\* options["auto_managed"] of the new Torrent
init_auto_managed(a) == IF a.path = "state" THEN a.state.auto_managed ELSE a.auto_managed

\* set_auto_managed leaves a handle alone that is paused and not auto-managed
init_touch(h) == ~(h.paused /\ ~h.auto_managed)

\* the fields of the new Torrent before its state is computed
init_torrent(s, a, owner) ==
  [state |-> "", statusmsg |-> "",
   is_finished |-> IF a.path = "state" THEN a.state.is_finished ELSE FALSE,
   waiting_on_resume_data |-> FALSE,
   trackers |-> init_trackers(s.session[a.id], a),
   owner |-> IF a.path = "state" THEN a.state.owner ELSE owner,
   auto_managed |-> init_auto_managed(a),
   shared |-> IF a.path = "state" THEN a.state.shared ELSE a.shared,
   magnet |-> (a.path = "magnet"
               \/ (a.path = "state" /\ a.id \notin s.torrent_files /\ a.state.magnet)),
   stop_at_ratio |-> IF a.path = "state" THEN a.state.stop_at_ratio
                     ELSE TorrentOptions.stop_at_ratio,
   stop_ratio |-> IF a.path = "state" THEN a.state.stop_ratio
                  ELSE TorrentOptions.stop_ratio,
   remove_at_ratio |-> IF a.path = "state" THEN a.state.remove_at_ratio
                       ELSE TorrentOptions.remove_at_ratio]
  @@ TorrentFields

\* the handle after set_trackers(state.trackers) and set_options
init_handle(h, a) ==
  [h EXCEPT !.trackers = init_trackers(h, a),
            !.auto_managed = IF init_touch(h) THEN init_auto_managed(a) ELSE @]

\* set_options -> set_auto_managed -> update_state
init_options(tor, h, touch, sp) ==
  IF touch THEN update_state(tor, h, sp) ELSE [torrent |-> tor, handle |-> h]

\* statusmsg = "OK", then update_state
init_status(r, sp) ==
  update_state([r.torrent EXCEPT !.statusmsg = "OK"], r.handle, sp)

init_result(s, t, r) == [s |-> [s EXCEPT !.session[t] = r.handle], tor |-> r.torrent]

\* The Torrent built on the handle of a.id; it is not in the registry yet.
torrent_init(s, a, owner) ==
  init_result(
    LogIf(init_touch(s.session[a.id]),
          LogIf(a.path = "state" /\ Len(a.state.trackers) > 0, s,
                "handle.force_reannounce", a.id, ""),
          "handle.auto_managed", a.id,
          IF init_auto_managed(a) THEN "True" ELSE "False"),
    a.id,
    init_status(init_options(init_torrent(s, a, owner),
                             init_handle(s.session[a.id], a),
                             init_touch(s.session[a.id]),
                             s.session_paused),
                s.session_paused))

\* --------------------------------------------------------- TorrentManager.add
\* The branch of add for an id get_torrent_list already holds: append the
\* trackers the torrent does not have.
add_merge_trackers(s, a) ==
  LET have == s.torrents[a.id].trackers
      extra == SelectSeq(a.trackers,
                         LAMBDA u : u \notin {have[i] : i \in 1..Len(have)})
  IN IF extra # <<>> THEN set_trackers(s, a.id, have \o extra) ELSE s

\* the owner add gives the Torrent
add_owner(c, a) ==
  LET owner == IF a.path = "state" THEN a.state.owner ELSE c.user
  IN IF has_account(owner) THEN owner ELSE "localclient"

\* add_torrent_params["paused"] and ["auto_managed"]
add_torrent_params == "paused=True auto_managed=False"

\* session.add_torrent, with alerts held back, then handle.auto_managed(False)
add_handle(s, a) ==
  Log(Log([s EXCEPT !.session =
             Put(@, a.id, [(IF a.id \in DOMAIN s.session
                            THEN s.session[a.id]
                            ELSE NewHandle(a.trackers)) EXCEPT !.auto_managed = FALSE])],
          "session.add_torrent", a.id, add_torrent_params),
      "handle.auto_managed", a.id, "False")

add_register_after_resume(made, t) ==
  [Log(made.s, "AlertManager.resume", t, "") EXCEPT !.torrents = Put(@, t, made.tor)]

\* self.torrents[torrent.torrent_id] = torrent, then alerts flow again
add_register(made, t) ==
  Log([made.s EXCEPT !.torrents = Put(@, t, made.tor)], "AlertManager.resume", t, "")

\* options["add_paused"]
options_add_paused(a) == IF a.path = "state" THEN a.state.paused ELSE a.add_paused

add_resume_whatever(s, a) == torrent_resume(s, a.id)

\* resume unless add_paused
add_resume(s, a) == IF ~options_add_paused(a) THEN torrent_resume(s, a.id) ELSE s

\* queue the id and write the .torrent file of a filedump
add_files(s, a) ==
  LogIf(a.path = "filedump",
        [s EXCEPT !.queued_torrents = @ \cup {a.id},
                  !.torrent_files = IF a.path = "filedump" THEN @ \cup {a.id} ELSE @],
        "write .torrent", a.id, "")

\* save the state when asked to
add_save_state(s, a) == IF a.save_state THEN save_state(s) ELSE s

add_emit(s, a) ==
  Log(s, "TorrentAddedEvent", a.id, IF a.path = "state" THEN "True" ELSE "False")

\* From the engine add to the end of add.
add_to_session(s, c, a) ==
  IF a.engine_raises \/ (duplicate_is_error /\ a.id \in DOMAIN s.session)
  THEN [s |-> Log(Log(s, "AlertManager.pause", a.id, ""), "AlertManager.resume", a.id, ""),
        res |-> "None"]
  ELSE [s |-> add_emit(add_save_state(add_files(add_resume(
                add_register(
                  torrent_init(add_handle(Log(s, "AlertManager.pause", a.id, ""), a),
                               a, add_owner(c, a)),
                  a.id), a), a), a), a),
        res |-> "id"]

\* what add does with its arguments: nothing, a merge of trackers, or an engine add
add_way(s, c, a) ==
  IF a.path = "none" \/ a.path = "baddump"
  THEN "none"
  ELSE IF a.path = "state"
  THEN IF a.id \in s.torrent_files \/ a.state.magnet THEN "session" ELSE "none"
  ELSE IF a.path \in {"torrent_info", "filedump"} /\ a.id \in get_torrent_list(s, c)
  THEN "merge"
  ELSE "session"

add(s, c, a) ==
  CASE add_way(s, c, a) = "none" -> [s |-> s, res |-> "None"]
    [] add_way(s, c, a) = "merge" -> [s |-> add_merge_trackers(s, a), res |-> "None"]
    [] add_way(s, c, a) = "session" -> add_to_session(s, c, a)

\* ------------------------------------------------------ TorrentManager.remove
\* session.remove_torrent
remove_from_session(s, t) ==
  Log([s EXCEPT !.session = Pop(@, t)], "session.remove_torrent", t, "")

\* drop the id from the fastresume file, the .torrent file and the queue
remove_files(s, t) ==
  [save_resume_data_file(s, DictArg(Pop(load_resume_data_file(s), t)))
     EXCEPT !.torrent_files = @ \ {t},
            !.queued_torrents = IF ~s.torrents[t].is_finished THEN @ \ {t} ELSE @]

remove_entity_kept(s, t) == Log(s, "del torrents[id]", t, "")

\* del self.torrents[torrent_id]
remove_entity(s, t) ==
  Log([s EXCEPT !.torrents = Pop(@, t)], "del torrents[id]", t, "")

\* save_state, then the event
remove_done(s, t) == Log(save_state(s), "TorrentRemovedEvent", t, "")

\* remove that goes on to notify observers about an id it does not hold
remove_unknown_emits(s, t) ==
  [s |-> Log(s, "PreTorrentRemovedEvent", t, ""), res |-> "False"]

\* remove of an id the registry does not hold
remove_unknown(s, t) == [s |-> s, res |-> "InvalidTorrentError"]

\* remove that discards the entity before it notifies and deregisters
remove_known_discard_first(s, t, engine_raises) ==
  IF engine_raises
  THEN [s |-> Log(s, "PreTorrentRemovedEvent", t, ""), res |-> "False"]
  ELSE [s |-> remove_done(remove_from_session(
                Log(remove_entity(remove_files(s, t), t),
                    "PreTorrentRemovedEvent", t, ""), t), t),
        res |-> "True"]

\* remove of a registered id; engine_raises: session.remove_torrent raises
remove_known(s, t, engine_raises) ==
  IF engine_raises
  THEN [s |-> Log(s, "PreTorrentRemovedEvent", t, ""), res |-> "False"]
  ELSE [s |-> remove_done(remove_entity(remove_files(remove_from_session(
                Log(s, "PreTorrentRemovedEvent", t, ""), t), t), t), t),
        res |-> "True"]

remove(s, t, engine_raises) ==
  IF t \notin DOMAIN s.torrents
  THEN remove_unknown(s, t)
  ELSE remove_known(s, t, engine_raises)

\* ------------------------------------------------------ TorrentManager.update
\* the tests update makes on one torrent before it removes or pauses it
update_due(tor, h) ==
  /\ tor.stop_at_ratio
  /\ tor.state \notin {"Checking", "Allocating", "Paused", "Queued"}
  /\ get_ratio_reaches(h, tor.stop_ratio)
  /\ tor.is_finished

\* if not torrent.handle.is_paused(): torrent.pause()
update_pause(s, t) == IF ~s.session[t].paused THEN torrent_pause(s, t) ELSE s

\* The loop of update over the items of self.torrents, in the order the dict
\* gives them; a remove ends the loop.
RECURSIVE update_each(_, _, _)
update_each(s, order, engine_raises) ==
  IF order = <<>> THEN s
  ELSE IF ~update_due(s.torrents[Head(order)], s.session[Head(order)])
  THEN update_each(s, Tail(order), engine_raises)
  ELSE IF s.torrents[Head(order)].remove_at_ratio
  THEN remove(s, Head(order), engine_raises).s
  ELSE update_each(update_pause(s, Head(order)), Tail(order), engine_raises)

\* TorrentManager.update
update(s, order, engine_raises) == update_each(s, order, engine_raises)

\* -------------------------------------------------- TorrentManager.load_state
\* The arguments load_state gives add for one record of the state file.
StateAdd(t, ts) ==
  [path |-> "state", id |-> t, trackers |-> ts.trackers, add_paused |-> ts.paused,
   auto_managed |-> ts.auto_managed, shared |-> ts.shared, state |-> ts,
   engine_raises |-> FALSE, save_state |-> FALSE]

RECURSIVE load_state_each(_, _, _)
load_state_each(s, file, ids) ==
  IF ids = {} THEN s
  ELSE load_state_each(add(s, [user |-> "", admin |-> TRUE],
                           StateAdd(Min(ids), file[Min(ids)])).s,
                       file, ids \ {Min(ids)})

load_state(s) ==
  Log(load_state_each(s, s.state_file, DOMAIN s.state_file), "SessionStartedEvent", NoId, "")

\* TorrentManager.start
start(s) == [load_state(s) EXCEPT !.timers_running = TRUE]

\* ------------------------------------------------------------- alert handlers
emit_if_changed_or_not(s, t, old_state) ==
  Log(s, "TorrentStateChangedEvent", t, s.torrents[t].state)

emit_if_changed(s, t, old_state) ==
  IF s.torrents[t].state # old_state
  THEN Log(s, "TorrentStateChangedEvent", t, s.torrents[t].state)
  ELSE s

\* Torrent.move_storage(dest): the engine answers with storage_moved_alert
move_storage(s, t, dest) == post(Log(s, "handle.move_storage", t, dest), t, "storage_moved")

\* a handler that moves the data of a job that downloaded nothing too
finished_move_any_payload(s, t) ==
  IF /\ ~s.torrents[t].is_finished
     /\ s.torrents[t].move_completed
     /\ s.torrents[t].download_location # s.torrents[t].move_completed_path
  THEN move_storage(s, t, s.torrents[t].move_completed_path)
  ELSE s
\* if not torrent.is_finished and total_download: ... torrent.move_storage(move_path)
finished_move(s, t) ==
  IF /\ ~s.torrents[t].is_finished /\ s.session[t].payload # 0
     /\ s.torrents[t].move_completed
     /\ s.torrents[t].download_location # s.torrents[t].move_completed_path
  THEN move_storage(s, t, s.torrents[t].move_completed_path)
  ELSE s

\* component.get("EventManager").emit(TorrentFinishedEvent(torrent_id))
finished_emit(s, t) ==
  LogIf(~s.torrents[t].is_finished /\ s.session[t].payload # 0, s,
        "TorrentFinishedEvent", t, "")

\* is_finished = True, update_state, and out of the queue
finished_mark(s, t) ==
  [torrent_update_state([s EXCEPT !.torrents[t].is_finished = TRUE], t)
     EXCEPT !.queued_torrents = @ \ {t}]

\* save resume data only when something was downloaded
finished_save(s, t) ==
  IF s.session[t].payload # 0 THEN save_resume_data(s, {t}) ELSE s

on_alert_torrent_finished(s, t) ==
  IF t \notin DOMAIN s.torrents THEN s
  ELSE finished_save(finished_mark(finished_emit(finished_move(s, t), t), t), t)

\* write the fastresume file unless the component is shutting down
paused_save(s, t) ==
  IF s.timers_running THEN save_resume_data(s, {t}) ELSE s

\* a handler that leaves the id in the list
shutdown_list_kept(list, t) == list
\* if torrent_id in self.shutdown_torrent_pause_list: ...remove(torrent_id)
shutdown_list_remove(list, t) == SelectSeq(list, LAMBDA x : x # t)

on_alert_torrent_paused(s, t) ==
  IF t \notin DOMAIN s.torrents THEN s
  ELSE [paused_save(emit_if_changed(torrent_update_state(s, t), t, s.torrents[t].state), t)
          EXCEPT !.shutdown_torrent_pause_list = shutdown_list_remove(@, t)]

on_alert_torrent_resumed(s, t) ==
  IF t \notin DOMAIN s.torrents THEN s
  ELSE Log(emit_if_changed(torrent_update_state(s, t), t, s.torrents[t].state),
           "TorrentResumedEvent", t, "")

\* a torrent that moved out of a finished state is queued again
state_changed_requeue(s, t) ==
  IF s.torrents[t].state \in {"Checking", "Checking Resume Data", "Downloading"}
  THEN [s EXCEPT !.torrents[t].is_finished = FALSE, !.queued_torrents = @ \cup {t}]
  ELSE s

on_alert_state_changed(s, t) ==
  IF t \notin DOMAIN s.torrents THEN s
  ELSE emit_if_changed(state_changed_requeue(torrent_update_state(s, t), t),
                       t, s.torrents[t].state)

on_alert_save_resume_data(s, t, blob) ==
  IF t \notin DOMAIN s.torrents THEN s
  ELSE save_resume_data_file(
         [s EXCEPT !.resume_data = Put(@, t, blob),
                   !.num_resume_data = @ - 1,
                   !.torrents[t].waiting_on_resume_data = FALSE],
         NoneArg)

on_alert_save_resume_data_failed(s, t) ==
  IF t \notin DOMAIN s.torrents THEN s
  ELSE save_resume_data_file(
         [s EXCEPT !.num_resume_data = @ - 1,
                   !.torrents[t].waiting_on_resume_data = FALSE],
         NoneArg)

\* if torrent.forcing_recheck: ... torrent.handle.pause()
checked_repause(s, t) ==
  IF ~s.torrents[t].forcing_recheck THEN s
  ELSE IF ~s.torrents[t].forcing_recheck_paused
  THEN [s EXCEPT !.torrents[t].forcing_recheck = FALSE]
  ELSE IF s.session[t].paused
  THEN Log([s EXCEPT !.torrents[t].forcing_recheck = FALSE], "handle.pause", t, "")
  ELSE post(Log([s EXCEPT !.torrents[t].forcing_recheck = FALSE,
                          !.session[t].paused = TRUE], "handle.pause", t, ""),
            t, "torrent_paused")

on_alert_torrent_checked(s, t) ==
  IF t \notin DOMAIN s.torrents THEN s
  ELSE torrent_update_state(checked_repause(s, t), t)

\* data tells what the reply carries: peers found by the DHT or by the
\* tracker, with or without the counts of complete and incomplete peers
on_alert_tracker_reply(s, t, data) ==
  IF t \notin DOMAIN s.torrents THEN s
  ELSE LogIf(data \in {"dht no counts", "tracker no counts"},
             [s EXCEPT !.torrents[t].tracker_status =
                IF data \in {"dht", "dht no counts"} THEN @ ELSE "Announce OK"],
             "handle.scrape_tracker", t, "")

on_alert_tracker_announce(s, t) ==
  IF t \notin DOMAIN s.torrents THEN s
  ELSE [s EXCEPT !.torrents[t].tracker_status = "Announce Sent"]

on_alert_tracker_warning(s, t) ==
  IF t \notin DOMAIN s.torrents THEN s
  ELSE [s EXCEPT !.torrents[t].tracker_status = "Warning"]

on_alert_tracker_error(s, t) ==
  IF t \notin DOMAIN s.torrents THEN s
  ELSE [s EXCEPT !.torrents[t].tracker_status = "Error"]

\* data is the path the engine moved the storage to
on_alert_storage_moved(s, t, data) ==
  IF t \notin DOMAIN s.torrents THEN s
  ELSE [s EXCEPT !.torrents[t].download_location = data,
                 !.torrents[t].move_completed = FALSE]

\* The files of a job's metainfo, by index: each path is a sequence of
\* characters. Torrent.get_files reads them from the metainfo it was built
\* with, so a rename does not change what it returns.
get_files == << <<"a", "/", "b", "/", "f">>, <<"a", "/", "g">> >>

FileIndexes == {i - 1 : i \in DOMAIN get_files}

\* str.startswith
startswith(path, prefix) ==
  Len(prefix) <= Len(path) /\ SubSeq(path, 1, Len(prefix)) = prefix

\* '/'.join(filter(None, filepath.split('/'))): slashes at either end and
\* doubled slashes go
RECURSIVE join_split(_, _)
join_split(filepath, joined) ==
  IF filepath = <<>> THEN joined
  ELSE IF Head(filepath) = "/" /\ (joined = <<>> \/ Tail(filepath) = <<>>
                                   \/ Head(Tail(filepath)) = "/")
  THEN join_split(Tail(filepath), joined)
  ELSE join_split(Tail(filepath), Append(joined, Head(filepath)))

\* sanitize_filepath(filepath, folder=True), for names without blanks,
\* backslashes or components made of dots only
sanitize_filepath(filepath) == Append(join_split(filepath, <<>>), "/")

\* the indexes Torrent.rename_folder asks the engine to rename
rename_folder_indexes(folder) ==
  {i \in FileIndexes : startswith(get_files[i + 1], folder)}

\* The file_renamed alert for the file of each index: the alert carries the index.
FileRenamedTypes == <<"file_renamed 0", "file_renamed 1">>

file_renamed_index(type) ==
  CHOOSE i \in FileIndexes : FileRenamedTypes[i + 1] = type

RECURSIVE rename_file_each(_, _, _)
rename_file_each(s, t, indexes) ==
  IF indexes = {} THEN s
  ELSE rename_file_each(
         post(Log(s, "handle.rename_file", t, Min(indexes)), t,
              FileRenamedTypes[Min(indexes) + 1]),
         t, indexes \ {Min(indexes)})

\* Torrent.rename_folder
rename_folder(s, t, folder, new_folder) ==
  IF Len(new_folder) < 1 THEN s
  ELSE [rename_file_each(s, t, rename_folder_indexes(folder))
          EXCEPT !.torrents[t].waiting_on_folder_rename =
            Append(@, [folder |-> folder,
                       new_folder |-> sanitize_filepath(new_folder),
                       indexes |-> rename_folder_indexes(folder)])]

\* the sequence without its i-th element
DelAt(seq, i) == SubSeq(seq, 1, i - 1) \o SubSeq(seq, i + 1, Len(seq))

\* the last alert of a folder rename: the event, del ...[i], save_resume_data
folder_renamed(s, t, i) ==
  save_resume_data(
    Log([s EXCEPT !.torrents[t].waiting_on_folder_rename = DelAt(@, i)],
        "TorrentFolderRenamedEvent", t,
        <<s.torrents[t].waiting_on_folder_rename[i].folder,
          s.torrents[t].waiting_on_folder_rename[i].new_folder>>),
    {t})

\* for i, wait_on_folder in enumerate(torrent.waiting_on_folder_rename)
RECURSIVE file_renamed_each(_, _, _, _)
file_renamed_each(s, t, index, i) ==
  IF i > Len(s.torrents[t].waiting_on_folder_rename) THEN s
  ELSE IF index \notin s.torrents[t].waiting_on_folder_rename[i].indexes
  THEN file_renamed_each(s, t, index, i + 1)
  ELSE IF Cardinality(s.torrents[t].waiting_on_folder_rename[i].indexes) = 1
  THEN folder_renamed(s, t, i)
  ELSE file_renamed_each(
         [s EXCEPT !.torrents[t].waiting_on_folder_rename[i].indexes = @ \ {index}],
         t, index, i + 1)

\* folder_rename after the loop: some entry was waiting for the index
folder_rename(s, t, index) ==
  \E i \in DOMAIN s.torrents[t].waiting_on_folder_rename :
    index \in s.torrents[t].waiting_on_folder_rename[i].indexes

on_alert_file_renamed(s, t, index) ==
  IF t \notin DOMAIN s.torrents THEN s
  ELSE IF folder_rename(s, t, index) THEN file_renamed_each(s, t, index, 1)
  ELSE save_resume_data(Log(s, "TorrentFileRenamedEvent", t, index), {t})

\* Torrent.write_torrentfile
on_alert_metadata_received(s, t) ==
  IF t \notin DOMAIN s.torrents THEN s
  ELSE Log([s EXCEPT !.torrent_files = @ \cup {t}], "write .torrent", t, "")

on_alert_file_error(s, t) ==
  IF t \notin DOMAIN s.torrents THEN s
  ELSE torrent_update_state(s, t)

\* data is the index of the file
on_alert_file_completed(s, t, data) == Log(s, "TorrentFileCompletedEvent", t, data)

\* The handler AlertManager runs for an alert of the given type.
dispatch(s, t, type, blob) ==
  CASE type = "torrent_finished" -> on_alert_torrent_finished(s, t)
    [] type = "torrent_paused" -> on_alert_torrent_paused(s, t)
    [] type = "torrent_checked" -> on_alert_torrent_checked(s, t)
    [] type = "tracker_reply" -> on_alert_tracker_reply(s, t, blob)
    [] type = "tracker_announce" -> on_alert_tracker_announce(s, t)
    [] type = "tracker_warning" -> on_alert_tracker_warning(s, t)
    [] type = "tracker_error" -> on_alert_tracker_error(s, t)
    [] type = "storage_moved" -> on_alert_storage_moved(s, t, blob)
    [] type = "torrent_resumed" -> on_alert_torrent_resumed(s, t)
    [] type = "state_changed" -> on_alert_state_changed(s, t)
    [] type = "save_resume_data" -> on_alert_save_resume_data(s, t, blob)
    [] type = "save_resume_data_failed" -> on_alert_save_resume_data_failed(s, t)
    [] type = "metadata_received" -> on_alert_metadata_received(s, t)
    [] type = "file_error" -> on_alert_file_error(s, t)
    [] type = "file_completed" -> on_alert_file_completed(s, t, blob)
    [] type \in Range(FileRenamedTypes) ->
         on_alert_file_renamed(s, t, file_renamed_index(type))

\* -------------------------------------------------------- TorrentManager.stop
\* the loop of stop over one unpaused torrent
stop_pause(s, t) ==
  [post(Log([s EXCEPT !.session[t].auto_managed = FALSE, !.session[t].paused = TRUE],
            "handle.pause", t, ""),
        t, "torrent_paused")
     EXCEPT !.shutdown_torrent_pause_list = Append(@, t)]

RECURSIVE stop_pause_each(_, _)
stop_pause_each(r, ids) ==
  IF ids = {} THEN r
  ELSE IF ~r.s.session[Min(ids)].paused
  THEN stop_pause_each([s |-> stop_pause(r.s, Min(ids)), list |-> r.list \cup {Min(ids)}],
                       ids \ {Min(ids)})
  ELSE stop_pause_each(r, ids \ {Min(ids)})

\* self.save_resume_data(save_resume_data_list)
stop_save(r) == [s |-> save_resume_data(r.s, r.list), list |-> r.list]

\* stop up to its wait loop
stop_begin(s) ==
  stop_save(stop_pause_each([s |-> save_state([s EXCEPT !.timers_running = FALSE]),
                             list |-> {}],
                            DOMAIN s.torrents))

\* the test at the top of the wait loop
stop_wait(s) ==
  IF s.shutdown_torrent_pause_list # <<>>
  THEN TRUE
  ELSE \E t \in DOMAIN s.torrents : s.torrents[t].waiting_on_resume_data


\* ------------------------------------------------------------------ the engine
\* The coarse phases a handle moves through on its own: a paused handle
\* downloads nothing.
EngineNext(h) ==
  IF h.ltstate = "Checking Resume Data" THEN {"Downloading", "Seeding"}
  ELSE IF h.ltstate = "Downloading" /\ ~h.paused THEN {"Seeding"}
  ELSE {}

\* the engine posts torrent_finished_alert when the torrent becomes a seed
engine_finished(s, t, next) ==
  IF next = "Seeding" THEN post(s, t, "torrent_finished") ELSE s

\* The handle enters phase next; the engine posts state_changed_alert and,
\* when the torrent becomes a seed, torrent_finished_alert.
engine_progress(s, t, next) ==
  engine_finished(
    post([s EXCEPT !.session[t].ltstate = next,
                   !.session[t].payload =
                     IF s.session[t].ltstate = "Downloading" /\ next = "Seeding"
                     THEN 1 ELSE @],
         t, "state_changed"),
    t, next)

\* --------------------------------------------------------------------- actions
\* one more command, timer tick or engine transition
Budget == ops < MaxOps /\ ops' = ops + 1

FitsUpTo(s, max) == \A t \in Ids : Len(s.alerts[t]) <= max

Fits(s) == FitsUpTo(s, MaxAlerts)

NoState ==
  [trackers |-> <<>>, paused |-> FALSE, auto_managed |-> FALSE, is_finished |-> FALSE,
   owner |-> "", shared |-> FALSE, magnet |-> FALSE,
   stop_at_ratio |-> FALSE, stop_ratio |-> 2, remove_at_ratio |-> FALSE]

StopLocals == <<pc, wait, save_resume_data_list>>

Init ==
  /\ torrents = EmptyMap
  /\ session = EmptyMap
  /\ session_paused = FALSE
  /\ alerts = [t \in Ids |-> <<>>]
  /\ queued_torrents = {}
  /\ shutdown_torrent_pause_list = <<>>
  /\ num_resume_data = 0
  /\ resume_data = EmptyMap
  /\ fastresume_file = EmptyMap
  /\ state_file = EmptyMap
  /\ torrent_files = {}
  /\ timers_running = FALSE
  /\ pc = "init"
  /\ wait = TRUE
  /\ save_resume_data_list = {}
  /\ lastop = Op("__init__", NoId, "", "")
  /\ oplog = <<>>
  /\ ops = 0
  /\ delivered = NoneDelivered
  /\ renaming = [t \in Ids |-> <<>>]

Start ==
  /\ UNCHANGED ops
  /\ pc = "init"
  /\ Commit(start(St))
  /\ pc' = "running"
  /\ lastop' = Op("start", NoId, "", "")
  /\ UNCHANGED <<delivered, renaming>>
  /\ UNCHANGED <<wait, save_resume_data_list>>

Add(c, a) ==
  /\ Budget
  /\ pc = "running"
  /\ \E r \in {add(St, c, a)} :
        /\ Fits(r.s)
        /\ Commit(r.s)
        /\ lastop' = [Op("add", a.id, r.res, a.path)
                        EXCEPT !.c = c, !.trackers = a.trackers,
                               !.add_paused = options_add_paused(a)]
        /\ UNCHANGED <<delivered, renaming>>
  /\ UNCHANGED StopLocals

Remove(t, engine_raises) ==
  /\ Budget
  /\ pc = "running"
  /\ \E r \in {remove(St, t, engine_raises)} :
        /\ Commit(r.s)
        /\ lastop' = Op("remove", t, r.res, "")
        /\ UNCHANGED <<delivered, renaming>>
  /\ UNCHANGED StopLocals

Pause(t) ==
  /\ Budget
  /\ pc = "running"
  /\ t \in DOMAIN torrents
  /\ \E s \in {torrent_pause(St, t)} : Fits(s) /\ Commit(s)
  /\ lastop' = Op("pause", t, "True", "")
  /\ UNCHANGED <<delivered, renaming>>
  /\ UNCHANGED StopLocals

Resume(t) ==
  /\ Budget
  /\ pc = "running"
  /\ t \in DOMAIN torrents
  /\ \E s \in {torrent_resume(St, t)} : Fits(s) /\ Commit(s)
  /\ lastop' = Op("resume", t, "", "")
  /\ UNCHANGED <<delivered, renaming>>
  /\ UNCHANGED StopLocals

SaveResumeDataTimer ==
  /\ Budget
  /\ pc = "running"
  /\ \E s \in {save_resume_data(St, DOMAIN torrents)} : Fits(s) /\ Commit(s)
  /\ lastop' = Op("save_resume_data", NoId, "", "")
  /\ UNCHANGED <<delivered, renaming>>
  /\ UNCHANGED StopLocals

SaveStateTimer ==
  /\ Budget
  /\ pc = "running"
  /\ Commit(save_state(St))
  /\ lastop' = Op("save_state", NoId, "", "")
  /\ UNCHANGED <<delivered, renaming>>
  /\ UNCHANGED StopLocals

\* AlertManager delivers the oldest alert of job t to its handler; the engine
\* answers a save_resume_data request with the blob or with a failure.
\* the place of the oldest folder rename still waiting for the file, 0 for none
oldest_waiting(issues, index) ==
  IF \E j \in DOMAIN issues : index \in issues[j].left
  THEN Min({j \in DOMAIN issues : index \in issues[j].left})
  ELSE 0

\* the engine's alerts come in the order of the rename_file calls: an alert
\* for a file answers the oldest rename that waits for that file
answered(issues, type) ==
  IF type \notin Range(FileRenamedTypes) \/ oldest_waiting(issues, file_renamed_index(type)) = 0
  THEN issues
  ELSE [issues EXCEPT ![oldest_waiting(issues, file_renamed_index(type))].left =
          @ \ {file_renamed_index(type)}]

\* a folder rename that asked the engine to rename files
issued(issues, folder, new_folder) ==
  IF Len(new_folder) < 1 THEN issues
  ELSE Append(issues, [folder |-> folder, new_folder |-> sanitize_filepath(new_folder),
                       left |-> rename_folder_indexes(folder)])

HandleAlertUpTo(t, type, blob, max) ==
  /\ UNCHANGED ops
  /\ pc \in {"running", "stop_drain"}
  /\ alerts[t] # <<>>
  /\ \/ type = Head(alerts[t])
     \/ type = "save_resume_data_failed" /\ Head(alerts[t]) = "save_resume_data"
  /\ \E s \in {dispatch([St EXCEPT !.alerts[t] = Tail(@)], t, type, blob)} :
       FitsUpTo(s, max) /\ Commit(s)
  /\ lastop' = Op(type, t, "", "")
  /\ renaming' = [renaming EXCEPT ![t] = answered(@, type)]
  /\ UNCHANGED delivered
  /\ UNCHANGED StopLocals

HandleAlert(t, type, blob) == HandleAlertUpTo(t, type, blob, MaxAlerts)

EngineProgress(t, next) ==
  /\ Budget
  /\ pc # "stopped"
  /\ t \in DOMAIN session
  /\ next \in EngineNext(session[t])
  /\ \E s \in {engine_progress(St, t, next)} : Fits(s) /\ Commit(s)
  /\ lastop' = Op("engine", t, "", next)
  /\ UNCHANGED <<delivered, renaming>>
  /\ UNCHANGED StopLocals

StopBegin ==
  /\ UNCHANGED ops
  /\ pc = "running"
  /\ \E r \in {stop_begin(St)} :
        /\ Fits(r.s)
        /\ Commit(r.s)
        /\ save_resume_data_list' = r.list
  /\ pc' = "stop_check"
  /\ wait' = TRUE
  /\ lastop' = Op("stop", NoId, "", "")
  /\ UNCHANGED <<delivered, renaming>>

\* the top of the wait loop, up to time.sleep
StopCheck ==
  /\ UNCHANGED ops
  /\ pc = "stop_check"
  /\ wait' = stop_wait(St)
  /\ pc' = "stop_drain"
  /\ lastop' = Op("stop", NoId, "", "check")
  /\ UNCHANGED <<delivered, renaming>>
  /\ UNCHANGED <<torrents, session, session_paused, alerts, queued_torrents,
                 shutdown_torrent_pause_list, num_resume_data, resume_data,
                 fastresume_file, state_file, torrent_files, timers_running,
                 save_resume_data_list, oplog>>

\* handle_alerts returns; the loop repeats or stop returns
StopDrained ==
  /\ UNCHANGED ops
  /\ pc = "stop_drain"
  /\ pc' = IF wait THEN "stop_check" ELSE "stopped"
  /\ lastop' = Op("stop", NoId, "", IF wait THEN "again" ELSE "return")
  /\ UNCHANGED <<delivered, renaming>>
  /\ UNCHANGED <<torrents, session, session_paused, alerts, queued_torrents,
                 shutdown_torrent_pause_list, num_resume_data, resume_data,
                 fastresume_file, state_file, torrent_files, timers_running,
                 save_resume_data_list, wait, oplog>>

AlertTypes ==
  {"torrent_finished", "torrent_paused", "torrent_resumed", "state_changed",
   "save_resume_data", "save_resume_data_failed"}

\* the arguments of add
AddArg(path, t, tr, add_paused, auto, shared, st, raises) ==
  [path |-> path, id |-> t, trackers |-> tr, add_paused |-> add_paused,
   auto_managed |-> auto, shared |-> shared, state |-> st,
   engine_raises |-> raises, save_state |-> TRUE]

SeedState ==
  [trackers |-> <<>>, paused |-> FALSE, auto_managed |-> FALSE, is_finished |-> TRUE,
   owner |-> "bob", shared |-> FALSE, magnet |-> TRUE,
   stop_at_ratio |-> FALSE, stop_ratio |-> 2, remove_at_ratio |-> FALSE]

Admin == [user |-> "bob", admin |-> TRUE]

AddArgs ==
  {AddArg("filedump", t, <<>>, p, FALSE, FALSE, NoState, FALSE) : t \in Ids, p \in BOOLEAN}
  \cup {AddArg("state", t, <<>>, FALSE, FALSE, FALSE, SeedState, FALSE) : t \in Ids}

Next ==
  \/ Start
  \/ \E a \in AddArgs : Add(Admin, a)
  \/ \E t \in Ids, raises \in BOOLEAN : Remove(t, raises)
  \/ \E t \in Ids : Pause(t)
  \/ \E t \in Ids : Resume(t)
  \/ SaveResumeDataTimer
  \/ SaveStateTimer
  \/ \E t \in Ids, type \in AlertTypes, blob \in Blobs : HandleAlert(t, type, blob)
  \/ \E t \in Ids, next \in LtStates : EngineProgress(t, next)
  \/ StopBegin
  \/ StopCheck
  \/ StopDrained

Spec == Init /\ [][Next]_vars

\* The wait loop of stop: the loop itself keeps running (its test and the
\* return of handle_alerts), and every alert the engine has posted for a job
\* is handed to its handler by one of the drains.
StopFairness ==
  /\ WF_vars(StopCheck)
  /\ WF_vars(StopDrained)
  /\ \A t \in Ids :
       SF_vars(\E type \in AlertTypes, blob \in Blobs : HandleAlert(t, type, blob))

SpecStop == Init /\ [][Next]_vars /\ StopFairness


\* ------------------------------------------- update_state on every engine report
\* One torrent in any state, on a handle reporting any phase, error and flags.
TorrentIn(state) ==
  [state |-> state, statusmsg |-> "OK", is_finished |-> FALSE,
   waiting_on_resume_data |-> FALSE, trackers |-> <<>>, owner |-> "bob",
   auto_managed |-> FALSE, shared |-> FALSE, magnet |-> FALSE,
   stop_at_ratio |-> FALSE, stop_ratio |-> 2, remove_at_ratio |-> FALSE]
  @@ TorrentFields

HandleIn(ltstate, error, paused, auto) ==
  [paused |-> paused, auto_managed |-> auto, ltstate |-> ltstate,
   error |-> error, payload |-> 0, trackers |-> <<>>,
   total_done |-> 0, all_time_upload |-> 0,
   file_priorities |-> <<1, 1>>, queue_position |-> -1]

InitUS ==
  /\ \E state \in TorrentStates : torrents = [t \in {1} |-> TorrentIn(state)]
  /\ \E ltstate \in LtStates, error \in Errors, paused \in BOOLEAN, auto \in BOOLEAN :
       session = [t \in {1} |-> HandleIn(ltstate, error, paused, auto)]
  /\ session_paused \in BOOLEAN
  /\ alerts = [t \in Ids |-> <<>>]
  /\ queued_torrents = {1}
  /\ shutdown_torrent_pause_list = <<>>
  /\ num_resume_data = 0
  /\ resume_data = EmptyMap
  /\ fastresume_file = EmptyMap
  /\ state_file = EmptyMap
  /\ torrent_files = {}
  /\ timers_running = TRUE
  /\ pc = "running"
  /\ wait = TRUE
  /\ save_resume_data_list = {}
  /\ lastop = Op("start", NoId, "", "")
  /\ oplog = <<>>
  /\ ops = 0
  /\ delivered = NoneDelivered
  /\ renaming = [t \in Ids |-> <<>>]

UpdateState(t) ==
  /\ t \in DOMAIN torrents
  /\ Commit(torrent_update_state(St, t))
  /\ lastop' = Op("update_state", t, "", "")
  /\ UNCHANGED <<delivered, renaming>>
  /\ UNCHANGED <<pc, wait, save_resume_data_list, ops>>

NextUS == \E t \in Ids : UpdateState(t)

SpecUS == InitUS /\ [][NextUS]_vars

\* ------------------------------------------------ add by every caller and path
StateInputs ==
  {SeedState,
   [trackers |-> <<"u2">>, paused |-> TRUE, auto_managed |-> FALSE,
    is_finished |-> FALSE, owner |-> "alice", shared |-> FALSE, magnet |-> FALSE,
    stop_at_ratio |-> FALSE, stop_ratio |-> 2, remove_at_ratio |-> FALSE]}

AddArgsAll ==
  {AddArg(p, t, <<>>, FALSE, FALSE, FALSE, NoState, FALSE) :
     p \in {"none", "baddump"}, t \in Ids}
  \cup {AddArg(p, t, tr, paused, FALSE, shared, NoState, FALSE) :
          p \in {"torrent_info", "filedump", "magnet"}, t \in Ids,
          tr \in {<<"u1">>, <<"u1", "u2">>}, paused \in BOOLEAN, shared \in BOOLEAN}
  \cup {AddArg("filedump", t, <<"u1">>, FALSE, FALSE, FALSE, NoState, TRUE) : t \in Ids}
  \cup {AddArg("state", t, <<>>, FALSE, FALSE, FALSE, st, FALSE) :
          t \in Ids, st \in StateInputs}

NextAdd ==
  \/ Start
  \/ \E c \in Callers, a \in AddArgsAll : ops < MaxAddOps /\ Add(c, a)
  \/ \E t \in Ids : ops < MaxAddOps /\ Remove(t, FALSE)
  \/ \E t \in Ids, type \in AlertTypes, blob \in Blobs : HandleAlert(t, type, blob)

SpecAdd == Init /\ [][NextAdd]_vars

\* ------------------------------------------------------- Torrent.get_ratio
\* the most bytes the engine reports as done or as uploaded
MaxBytes == 2

\* a ratio as the quotient num / den; -1.0 stands for infinity
Quotient(num, den) == [num |-> num, den |-> den]
SameRatio(q, r) == q.num * r.den = r.num * q.den

\* handle.status(), for its two counters: a copy of what the engine reports
\* at the time of the call
handle_status(h) == [total_done |-> h.total_done, all_time_upload |-> h.all_time_upload]

\* a ratio that is infinite only when nothing was uploaded either
get_ratio_of_transfer(status) ==
  IF status.total_done > 0 \/ status.all_time_upload > 0
  THEN Quotient(status.all_time_upload,
                IF status.total_done > 0 THEN status.total_done ELSE 1)
  ELSE Quotient(-1, 1)

\* Torrent.get_ratio on self.status, the status object the Torrent holds
\* (never None: the constructor stores one, get_status replaces it)
get_ratio(status) ==
  IF status.total_done > 0
  THEN Quotient(status.all_time_upload, status.total_done)
  ELSE Quotient(-1, 1)

\* self.status = self.handle.status(), in the constructor and in get_status
store_status(s, t) == [s EXCEPT !.torrents[t].status = handle_status(s.session[t])]

\* Registered jobs on handles with any counters, as constructed.
InitRatio ==
  /\ \E done \in [Ids -> 0..MaxBytes], upload \in [Ids -> 0..MaxBytes] :
       session = [t \in Ids |->
                    [HandleIn("Downloading", "", FALSE, FALSE)
                       EXCEPT !.total_done = done[t], !.all_time_upload = upload[t]]]
  /\ torrents = [t \in Ids |->
                   [status |-> handle_status(session[t])] @@ TorrentIn("Downloading")]
  /\ session_paused = FALSE
  /\ alerts = [t \in Ids |-> <<>>]
  /\ queued_torrents = Ids
  /\ shutdown_torrent_pause_list = <<>>
  /\ num_resume_data = 0
  /\ resume_data = EmptyMap
  /\ fastresume_file = EmptyMap
  /\ state_file = EmptyMap
  /\ torrent_files = {}
  /\ timers_running = TRUE
  /\ pc = "running"
  /\ wait = TRUE
  /\ save_resume_data_list = {}
  /\ lastop = Op("start", NoId, "", "")
  /\ oplog = <<>>
  /\ ops = 0
  /\ delivered = NoneDelivered
  /\ renaming = [t \in Ids |-> <<>>]

\* the engine transfers a byte: down (and counted as done) or up
EngineTransfer(t, down) ==
  /\ IF down THEN session[t].total_done < MaxBytes
             ELSE session[t].all_time_upload < MaxBytes
  /\ Commit([St EXCEPT !.session[t] =
               IF down THEN [@ EXCEPT !.total_done = @ + 1]
               ELSE [@ EXCEPT !.all_time_upload = @ + 1]])
  /\ lastop' = Op("engine", t, "", "")
  /\ UNCHANGED <<delivered, renaming, ops>>
  /\ UNCHANGED StopLocals

\* get_ratio as update() and resume() call it, or as get_status calls it for
\* the key "ratio" after it stored a new status
GetRatio(t, in_get_status) ==
  /\ \E s \in {IF in_get_status THEN store_status(St, t) ELSE St} :
       /\ Commit(s)
       /\ lastop' = Op("get_ratio", t, get_ratio(s.torrents[t].status),
                       IF in_get_status THEN "get_status" ELSE "")
  /\ UNCHANGED <<delivered, renaming, ops>>
  /\ UNCHANGED StopLocals

NextRatio ==
  \/ \E t \in Ids, down \in BOOLEAN : EngineTransfer(t, down)
  \/ \E t \in Ids, in_get_status \in BOOLEAN : GetRatio(t, in_get_status)

SpecRatio == InitRatio /\ [][NextRatio]_vars

\* ------------------------------------------------ the list by every caller
\* get_torrent_list called in the session of caller c: get_status without
\* diff leaves the Torrent as it is
GetTorrentList(c) ==
  /\ Budget
  /\ pc = "running"
  /\ Commit(St)
  /\ lastop' = [Op("get_torrent_list", NoId, get_torrent_list(St, c), "") EXCEPT !.c = c]
  /\ UNCHANGED <<delivered, renaming>>
  /\ UNCHANGED StopLocals

ListArgs ==
  {AddArg("torrent_info", t, <<"u1">>, FALSE, FALSE, shared, NoState, FALSE) :
     t \in Ids, shared \in BOOLEAN}

NextList ==
  \/ Start
  \/ \E c \in Callers, a \in ListArgs : ops < MaxAddOps /\ Add(c, a)
  \/ \E t \in Ids : ops < MaxAddOps /\ Remove(t, FALSE)
  \/ \E c \in Callers : GetTorrentList(c)
  \/ \E t \in Ids, type \in AlertTypes, blob \in Blobs : HandleAlert(t, type, blob)

SpecList == Init /\ [][NextList]_vars

\* ------------------------------------------------- the sweep over many torrents
\* the orders in which a dict can hand out the keys S
Orders(S) ==
  {o \in [1..Cardinality(S) -> S] : \A i, j \in 1..Cardinality(S) : i # j => o[i] # o[j]}

\* a registered torrent with the given ratio options, on a handle in the
\* given phase
SweepTorrent(h, finished, stop, rem) ==
  update_state([TorrentIn("") EXCEPT !.is_finished = finished, !.stop_at_ratio = stop,
                                     !.stop_ratio = 1, !.remove_at_ratio = rem],
               h, FALSE).torrent

SweepHandle(ltstate, paused, upload) ==
  [HandleIn(ltstate, "", paused, FALSE) EXCEPT !.total_done = 1, !.all_time_upload = upload]

SweepHandles ==
  {SweepHandle(ltstate, paused, upload) :
     ltstate \in {"Downloading", "Seeding"}, paused \in BOOLEAN, upload \in {0, 2}}

\* Every id registered, with any mix of options, phases and ratios.
InitSweep ==
  /\ session \in [Ids -> SweepHandles]
  /\ \E finished \in [Ids -> BOOLEAN], stop \in [Ids -> BOOLEAN], rem \in [Ids -> BOOLEAN] :
       torrents = [t \in Ids |-> SweepTorrent(session[t], finished[t], stop[t], rem[t])]
  /\ session_paused = FALSE
  /\ alerts = [t \in Ids |-> <<>>]
  /\ queued_torrents = {t \in Ids : ~torrents[t].is_finished}
  /\ shutdown_torrent_pause_list = <<>>
  /\ num_resume_data = 0
  /\ resume_data = EmptyMap
  /\ fastresume_file = EmptyMap
  /\ state_file = [t \in Ids |-> TorrentState(torrents[t])]
  /\ torrent_files = Ids
  /\ timers_running = TRUE
  /\ pc = "running"
  /\ wait = TRUE
  /\ save_resume_data_list = {}
  /\ lastop = Op("start", NoId, "", "")
  /\ oplog = <<>>
  /\ ops = 0
  /\ delivered = NoneDelivered
  /\ renaming = [t \in Ids |-> <<>>]

\* one run of the periodic update; engine_raises: session.remove_torrent raises
PeriodicUpdate(order, engine_raises) ==
  /\ Budget
  /\ pc = "running"
  /\ order \in Orders(DOMAIN torrents)
  /\ \E s \in {update(St, order, engine_raises)} : Fits(s) /\ Commit(s)
  /\ lastop' = Op("update", NoId, "", IF engine_raises THEN "raises" ELSE "ok")
  /\ UNCHANGED <<delivered, renaming>>
  /\ UNCHANGED StopLocals

NextSweep ==
  \/ \E order \in Orders(DOMAIN torrents), raises \in BOOLEAN : PeriodicUpdate(order, raises)
  \/ \E t \in Ids, type \in AlertTypes, blob \in Blobs : HandleAlert(t, type, blob)

SpecSweep == InitSweep /\ [][NextSweep]_vars

\* --------------------------------------- alerts of every type, and renames
AllAlertTypes ==
  AlertTypes \cup Range(FileRenamedTypes)
  \cup {"torrent_checked", "tracker_reply", "tracker_announce", "tracker_warning",
        "tracker_error", "storage_moved", "metadata_received", "file_error",
        "file_completed"}

\* what an alert of the type can carry
AlertData(type) ==
  CASE type = "tracker_reply" -> {"dht", "dht no counts", "tracker", "tracker no counts"}
    [] type = "storage_moved" -> {"dir2"}
    [] type = "file_completed" -> FileIndexes
    [] OTHER -> Blobs

\* a registered torrent on the handle, a recheck forced on it or not
AlertTorrent(h, forcing, forcing_paused) ==
  [update_state(TorrentIn(""), h, FALSE).torrent
     EXCEPT !.forcing_recheck = forcing, !.forcing_recheck_paused = forcing_paused]

\* Any part of the ids registered; one alert of any type in flight, for a
\* registered id or for one that is not.
InitAlert ==
  /\ \E reg \in SUBSET Ids :
       /\ session \in [reg -> {HandleIn(ltstate, "", paused, FALSE) :
                                 ltstate \in {"Downloading", "Seeding"}, paused \in BOOLEAN}]
       /\ \E forcing \in [reg -> BOOLEAN], forcing_paused \in [reg -> BOOLEAN] :
            /\ \A t \in reg : forcing[t] => ~session[t].paused
            /\ \A t \in reg : forcing_paused[t] => forcing[t]
            /\ torrents = [t \in reg |-> AlertTorrent(session[t], forcing[t], forcing_paused[t])]
  /\ session_paused = FALSE
  /\ \E t \in Ids, type \in AllAlertTypes :
       alerts = [u \in Ids |-> IF u = t THEN <<type>> ELSE <<>>]
  /\ queued_torrents = DOMAIN torrents
  /\ shutdown_torrent_pause_list = <<>>
  /\ num_resume_data = 0
  /\ resume_data = EmptyMap
  /\ fastresume_file = EmptyMap
  /\ state_file = [t \in DOMAIN torrents |-> TorrentState(torrents[t])]
  /\ torrent_files = DOMAIN torrents
  /\ timers_running = TRUE
  /\ pc = "running"
  /\ wait = TRUE
  /\ save_resume_data_list = {}
  /\ lastop = Op("start", NoId, "", "")
  /\ oplog = <<>>
  /\ ops = 0
  /\ delivered = NoneDelivered
  /\ renaming = [t \in Ids |-> <<>>]

FolderNames == {<<"a", "/">>, <<"a", "/", "b", "/">>, <<"c", "/">>}

NewFolderNames == {<<>>, <<"n">>, <<"/", "n", "/", "/", "m", "/">>}

\* core.rename_folder
RenameFolder(t, folder, new_folder) ==
  /\ ops < MaxRenames /\ ops' = ops + 1
  /\ pc = "running"
  /\ t \in DOMAIN torrents
  /\ \E s \in {rename_folder(St, t, folder, new_folder)} :
       FitsUpTo(s, MaxRenameAlerts) /\ Commit(s)
  /\ lastop' = Op("rename_folder", t, "", <<folder, new_folder>>)
  /\ renaming' = [renaming EXCEPT ![t] = issued(@, folder, new_folder)]
  /\ UNCHANGED delivered
  /\ UNCHANGED StopLocals

\* One registered torrent, downloading, and no alert in flight.
InitRename ==
  /\ session = [t \in {Min(Ids)} |-> HandleIn("Downloading", "", FALSE, FALSE)]
  /\ torrents = [t \in {Min(Ids)} |-> AlertTorrent(session[t], FALSE, FALSE)]
  /\ session_paused = FALSE
  /\ alerts = [t \in Ids |-> <<>>]
  /\ queued_torrents = DOMAIN torrents
  /\ shutdown_torrent_pause_list = <<>>
  /\ num_resume_data = 0
  /\ resume_data = EmptyMap
  /\ fastresume_file = EmptyMap
  /\ state_file = [t \in DOMAIN torrents |-> TorrentState(torrents[t])]
  /\ torrent_files = DOMAIN torrents
  /\ timers_running = TRUE
  /\ pc = "running"
  /\ wait = TRUE
  /\ save_resume_data_list = {}
  /\ lastop = Op("start", NoId, "", "")
  /\ oplog = <<>>
  /\ ops = 0
  /\ delivered = NoneDelivered
  /\ renaming = [t \in Ids |-> <<>>]

HandleAnyAlert(t, type, data) == HandleAlertUpTo(t, type, data, MaxRenameAlerts)

NextAlert ==
  \E t \in Ids, type \in AllAlertTypes :
    \E data \in AlertData(type) : HandleAnyAlert(t, type, data)

SpecAlert == InitAlert /\ [][NextAlert]_vars

NextRename ==
  \/ \E t \in Ids, type \in AllAlertTypes :
       \E data \in AlertData(type) : HandleAnyAlert(t, type, data)
  \/ \E t \in Ids, folder \in FolderNames, new_folder \in NewFolderNames :
       RenameFolder(t, folder, new_folder)

SpecRename == InitRename /\ [][NextRename]_vars

\* ------------------------------------------------ get_status by two sessions
\* the lists of keys asked for; "color" names no field
KeySets == {{}, {"state"}, {"paused"}, {"state", "paused"}, {"is_seed", "color"}}

\* One registered torrent that no session has asked about.
InitStatus ==
  /\ \E paused \in BOOLEAN :
       session = [t \in {Min(Ids)} |-> HandleIn("Downloading", "", paused, FALSE)]
  /\ torrents = [t \in {Min(Ids)} |-> AlertTorrent(session[t], FALSE, FALSE)]
  /\ session_paused = FALSE
  /\ alerts = [t \in Ids |-> <<>>]
  /\ queued_torrents = DOMAIN torrents
  /\ shutdown_torrent_pause_list = <<>>
  /\ num_resume_data = 0
  /\ resume_data = EmptyMap
  /\ fastresume_file = EmptyMap
  /\ state_file = [t \in DOMAIN torrents |-> TorrentState(torrents[t])]
  /\ torrent_files = DOMAIN torrents
  /\ timers_running = TRUE
  /\ pc = "running"
  /\ wait = TRUE
  /\ save_resume_data_list = {}
  /\ lastop = Op("start", NoId, "", "")
  /\ oplog = <<>>
  /\ ops = 0
  /\ delivered = NoneDelivered
  /\ renaming = [t \in Ids |-> <<>>]

\* Torrent.get_status called for the session session_id
GetStatus(t, keys, diff, session_id) ==
  /\ Budget
  /\ pc = "running"
  /\ t \in DOMAIN torrents
  /\ \E r \in {get_status(St, t, keys, diff, session_id)} :
       /\ Commit(r.s)
       /\ lastop' = Op("get_status", t, r.res,
                       [keys |-> keys, diff |-> diff, session_id |-> session_id])
       /\ delivered' = IF diff THEN [delivered EXCEPT ![t][session_id] = r.res @@ @]
                       ELSE delivered
  /\ UNCHANGED renaming
  /\ UNCHANGED StopLocals

NextStatus ==
  \/ \E t \in Ids, keys \in KeySets, diff \in BOOLEAN, session_id \in SessionIds :
       GetStatus(t, keys, diff, session_id)
  \/ \E t \in Ids : Pause(t)
  \/ \E t \in Ids : Resume(t)
  \/ \E t \in Ids, type \in AlertTypes, blob \in Blobs : HandleAlert(t, type, blob)

SpecStatus == InitStatus /\ [][NextStatus]_vars

\* ------------------------------ add, remove, the sweep and alerts together
NextRegistry ==
  \/ \E a \in AddArgs : ops < MaxAddOps /\ Add(Admin, a)
  \/ \E t \in Ids, raises \in BOOLEAN : ops < MaxAddOps /\ Remove(t, raises)
  \/ \E order \in Orders(DOMAIN torrents), raises \in BOOLEAN : PeriodicUpdate(order, raises)
  \/ \E t \in Ids, type \in AlertTypes, blob \in Blobs : HandleAlert(t, type, blob)

SpecRegistry == InitSweep /\ [][NextRegistry]_vars

\* ------------------------------------------------- the finished alert
MovePaths == {"dir", "dir2"}

\* a seeding job that downloaded payload or none, finished already or not,
\* with its move-on-completion options
FinishedTorrent(h, finished, move, path) ==
  [update_state([TorrentIn("") EXCEPT !.is_finished = finished], h, FALSE).torrent
     EXCEPT !.move_completed = move, !.move_completed_path = path]

\* Both jobs registered and seeding; the engine has posted a finished alert
\* for each.  A job that is marked finished has left the queue set.
InitFinished ==
  /\ \E payload \in [Ids -> {0, 1}] :
       session = [t \in Ids |->
                    [HandleIn("Seeding", "", FALSE, FALSE) EXCEPT !.payload = payload[t]]]
  /\ \E finished \in [Ids -> BOOLEAN], move \in [Ids -> BOOLEAN], path \in [Ids -> MovePaths] :
       torrents = [t \in Ids |-> FinishedTorrent(session[t], finished[t], move[t], path[t])]
  /\ session_paused = FALSE
  /\ alerts = [t \in Ids |-> <<"torrent_finished">>]
  /\ queued_torrents = {t \in Ids : ~torrents[t].is_finished}
  /\ shutdown_torrent_pause_list = <<>>
  /\ num_resume_data = 0
  /\ resume_data = EmptyMap
  /\ fastresume_file = EmptyMap
  /\ state_file = [t \in Ids |-> TorrentState(torrents[t])]
  /\ torrent_files = Ids
  /\ timers_running = TRUE
  /\ pc = "running"
  /\ wait = TRUE
  /\ save_resume_data_list = {}
  /\ lastop = Op("start", NoId, "", "")
  /\ oplog = <<>>
  /\ ops = 0
  /\ delivered = NoneDelivered
  /\ renaming = [t \in Ids |-> <<>>]

\* a file is left out (0) or downloaded (1)
PriorityLists == [1..2 -> {0, 1}] \cup {<<1>>}

\* priority == 0 and file_priorities[index] > 0 for some file
priority_raised(old, new) == \E i \in DOMAIN old : old[i] = 0 /\ new[i] > 0

\* Torrent.set_file_priorities; a list of another length than the files
\* changes nothing
\* self.handle.prioritize_files(file_priorities)
prioritize_files(s, t, file_priorities) ==
  Log([s EXCEPT !.session[t].file_priorities = file_priorities],
      "handle.prioritize_files", t, file_priorities)

\* self.options["file_priorities"] = self.handle.file_priorities()
store_file_priorities(s, t) ==
  [s EXCEPT !.torrents[t].file_priorities = s.session[t].file_priorities]

set_file_priorities(s, t, file_priorities) ==
  IF Len(file_priorities) # Len(get_files) THEN store_file_priorities(s, t)
  ELSE store_file_priorities(
         IF priority_raised(s.torrents[t].file_priorities, file_priorities)
         THEN torrent_update_state(
                [prioritize_files(s, t, file_priorities)
                   EXCEPT !.torrents[t].is_finished = FALSE], t)
         ELSE prioritize_files(s, t, file_priorities),
         t)

SetFilePriorities(t, file_priorities) ==
  /\ UNCHANGED ops
  /\ pc = "running"
  /\ t \in DOMAIN torrents
  /\ Commit(set_file_priorities(St, t, file_priorities))
  /\ lastop' = Op("set_file_priorities", t,
                  IF /\ Len(file_priorities) = Len(get_files)
                     /\ priority_raised(torrents[t].file_priorities, file_priorities)
                  THEN "raised" ELSE "", file_priorities)
  /\ UNCHANGED <<delivered, renaming>>
  /\ UNCHANGED StopLocals

NextFinished ==
  \/ NextAlert
  \/ \E file_priorities \in PriorityLists : SetFilePriorities(1, file_priorities)

SpecFinished == InitFinished /\ [][NextFinished]_vars

\* ------------------------------------------------- errors and auto-management
\* Torrent.set_auto_managed: a handle that is paused and not auto-managed is
\* left alone
set_auto_managed(s, t, auto_managed) ==
  IF s.session[t].paused /\ ~s.session[t].auto_managed
  THEN [s EXCEPT !.torrents[t].auto_managed = auto_managed]
  ELSE torrent_update_state(
         Log([s EXCEPT !.torrents[t].auto_managed = auto_managed,
                       !.session[t].auto_managed = auto_managed],
             "handle.auto_managed", t, IF auto_managed THEN "True" ELSE "False"), t)

\* Torrent.force_recheck: handle.force_recheck() and handle.resume(); the
\* engine answers with torrent_checked_alert
force_recheck(s, t) ==
  [post(resume_handle(Log(s, "handle.force_recheck", t, ""), t), t, "torrent_checked")
     EXCEPT !.torrents[t].forcing_recheck = TRUE,
            !.torrents[t].forcing_recheck_paused = s.session[t].paused]

\* the handles of the jobs other than the first: downloading, no error
Healthy(f) == \A t \in Ids \ {1} : f[t] = FALSE

\* Both jobs registered; the engine has reported an error on the handle of
\* the first or not, after the Torrent computed its state; that handle is
\* paused or not, auto-managed or not, and its auto_managed option is set or
\* not.
InitAuto ==
  /\ \E error \in [Ids -> Errors], paused \in [Ids -> BOOLEAN], auto \in [Ids -> BOOLEAN],
        option \in [Ids -> BOOLEAN] :
       /\ Healthy(paused) /\ Healthy(auto) /\ Healthy(option)
       /\ \A t \in Ids \ {1} : error[t] = ""
       /\ session = [t \in Ids |-> HandleIn("Downloading", error[t], paused[t], auto[t])]
       /\ torrents = [t \in Ids |->
                        [AlertTorrent(HandleIn("Downloading", "", paused[t], auto[t]),
                                      FALSE, FALSE)
                           EXCEPT !.auto_managed = option[t]]]
  /\ session_paused = FALSE
  /\ alerts = [t \in Ids |-> <<>>]
  /\ queued_torrents = Ids
  /\ shutdown_torrent_pause_list = <<>>
  /\ num_resume_data = 0
  /\ resume_data = EmptyMap
  /\ fastresume_file = EmptyMap
  /\ state_file = [t \in Ids |-> TorrentState(torrents[t])]
  /\ torrent_files = Ids
  /\ timers_running = TRUE
  /\ pc = "running"
  /\ wait = TRUE
  /\ save_resume_data_list = {}
  /\ lastop = Op("start", NoId, "", "")
  /\ oplog = <<>>
  /\ ops = 0
  /\ delivered = NoneDelivered
  /\ renaming = [t \in Ids |-> <<>>]

SetAutoManaged(t, auto_managed) ==
  /\ Budget
  /\ pc = "running"
  /\ t \in DOMAIN torrents
  /\ \E s \in {set_auto_managed(St, t, auto_managed)} : Fits(s) /\ Commit(s)
  /\ lastop' = Op("set_auto_managed", t, "", IF auto_managed THEN "True" ELSE "False")
  /\ UNCHANGED <<delivered, renaming>>
  /\ UNCHANGED StopLocals

ForceRecheck(t) ==
  /\ Budget
  /\ pc = "running"
  /\ t \in DOMAIN torrents
  /\ \E s \in {force_recheck(St, t)} : FitsUpTo(s, MaxRenameAlerts) /\ Commit(s)
  /\ lastop' = Op("force_recheck", t, "True", "")
  /\ UNCHANGED <<delivered, renaming>>
  /\ UNCHANGED StopLocals

\* the commands of the user and runs of the periodic update in one behaviour
MaxAutoOps == 3

NextAuto ==
  \/ \E t \in Ids : UpdateState(t)
  \/ \E t \in Ids, auto_managed \in BOOLEAN :
       ops < MaxAutoOps /\ SetAutoManaged(t, auto_managed)
  \/ \E order \in Orders(DOMAIN torrents), raises \in BOOLEAN :
       ops < MaxAutoOps /\ PeriodicUpdate(order, raises)
  \/ \E t \in Ids : ops < MaxAutoOps /\ Pause(t)
  \/ \E t \in Ids : ops < MaxAutoOps /\ Resume(t)
  \/ \E t \in Ids : ops < MaxAutoOps /\ ForceRecheck(t)
  \/ NextAlert

SpecAuto == InitAuto /\ [][NextAuto]_vars

\* --------------------------------------------- the engine calls of a Torrent
EntityOps ==
  {"pause", "resume", "force_reannounce", "scrape_tracker", "connect_peer",
   "move_storage", "force_recheck"}

\* the engine command of the operation raises
raised(s, t, command) == Log(s, "raises", t, command)

\* Torrent.pause and what it returns
pause_call(s, t, raises) ==
  IF raises /\ ~s.session[t].paused
  THEN [s |-> raised(Log([s EXCEPT !.session[t].auto_managed = FALSE],
                         "handle.auto_managed", t, "False"), t, "handle.pause"),
        res |-> "False"]
  ELSE [s |-> torrent_pause(s, t), res |-> "True"]

\* Torrent.resume and what it returns: None when it leaves the handle alone,
\* True after handle.resume(), raised or not (except: pass)
resume_call(s, t, raises) ==
  IF s.session[t].paused /\ s.session[t].auto_managed
  THEN [s |-> s, res |-> "None"]
  ELSE IF resume_at_stop_ratio([s EXCEPT !.torrents[t].statusmsg = "OK"], t)
  THEN [s |-> [s EXCEPT !.torrents[t].statusmsg = "OK"], res |-> "None"]
  ELSE IF raises
  THEN [s |-> raised(resume_auto_managed([s EXCEPT !.torrents[t].statusmsg = "OK"], t),
                     t, "handle.resume"),
        res |-> "True"]
  ELSE [s |-> torrent_resume(s, t), res |-> "True"]

\* Torrent.force_reannounce, scrape_tracker and connect_peer: one engine
\* command in a try
command_call(s, t, command, raises) ==
  IF raises THEN [s |-> raised(s, t, command), res |-> "False"]
  ELSE [s |-> Log(s, command, t, ""), res |-> "True"]

\* Torrent.move_storage to a folder that exists
move_storage_call(s, t, dest, raises) ==
  IF raises THEN [s |-> raised(s, t, "handle.move_storage"), res |-> "False"]
  ELSE [s |-> move_storage(s, t, dest), res |-> "True"]

\* Torrent.force_recheck and what it returns
force_recheck_call(s, t, raises) ==
  IF raises THEN [s |-> raised(s, t, "handle.force_recheck"), res |-> "False"]
  ELSE [s |-> force_recheck(s, t), res |-> "True"]

entity_call(s, t, op, raises) ==
  CASE op = "pause" -> pause_call(s, t, raises)
    [] op = "resume" -> resume_call(s, t, raises)
    [] op = "force_reannounce" -> command_call(s, t, "handle.force_reannounce", raises)
    [] op = "scrape_tracker" -> command_call(s, t, "handle.scrape_tracker", raises)
    [] op = "connect_peer" -> command_call(s, t, "handle.connect_peer", raises)
    [] op = "move_storage" -> move_storage_call(s, t, "dir2", raises)
    [] op = "force_recheck" -> force_recheck_call(s, t, raises)

\* one call of the user on job t; raises: the engine command of the call raises
EntityCall(t, op, raises) ==
  /\ ops < MaxAutoOps
  /\ Budget
  /\ pc = "running"
  /\ t \in DOMAIN torrents
  /\ \E r \in {entity_call(St, t, op, raises)} :
       /\ FitsUpTo(r.s, MaxRenameAlerts)
       /\ Commit(r.s)
       /\ lastop' = Op(op, t, r.res, IF raises THEN "raises" ELSE "ok")
  /\ UNCHANGED <<delivered, renaming>>
  /\ UNCHANGED StopLocals

NextCalls ==
  \/ \E t \in Ids, op \in EntityOps, raises \in BOOLEAN : EntityCall(t, op, raises)
  \/ NextAlert

SpecCalls == InitAuto /\ [][NextCalls]_vars

\* ------------------------------------------------------------- the queue
\* The engine's queue: handle.queue_position() is the rank of the job, from
\* 0, or -1 for a job the engine does not rank.  The position is tracked
\* where the queue operations run.
queue_position(s, t) == s.session[t].queue_position

\* the greatest rank the engine has given
last_position(s) ==
  CHOOSE p \in {queue_position(s, u) : u \in DOMAIN s.session} :
    \A u \in DOMAIN s.session : queue_position(s, u) <= p

\* the engine moves job t to rank to; the jobs between shift by one
queue_move(s, t, to) ==
  [s EXCEPT !.session =
     [u \in DOMAIN s.session |->
        [s.session[u] EXCEPT !.queue_position =
           IF u = t THEN to
           ELSE IF @ < 0 THEN @
           ELSE IF queue_position(s, t) < @ /\ @ <= to THEN @ - 1
           ELSE IF to <= @ /\ @ < queue_position(s, t) THEN @ + 1
           ELSE @]]]

\* handle.queue_position_top/up/down/bottom: nothing for a job without rank
\* or at the end it is moved towards
queue_command(s, t, command) ==
  Log(IF queue_position(s, t) < 0 THEN s
      ELSE CASE command = "handle.queue_position_top" -> queue_move(s, t, 0)
             [] command = "handle.queue_position_up" ->
                  queue_move(s, t, IF queue_position(s, t) > 0
                                   THEN queue_position(s, t) - 1 ELSE 0)
             [] command = "handle.queue_position_down" ->
                  queue_move(s, t, IF queue_position(s, t) < last_position(s)
                                   THEN queue_position(s, t) + 1 ELSE last_position(s))
             [] command = "handle.queue_position_bottom" ->
                  queue_move(s, t, last_position(s)),
      command, t, "")

QueueOps == {"queue_top", "queue_up", "queue_down", "queue_bottom"}

\* TorrentManager.queue_top and queue_up
queue_towards_top(s, t, command) ==
  IF queue_position(s, t) = 0
  THEN [s |-> s, res |-> "False"]
  ELSE [s |-> queue_command(s, t, command), res |-> "True"]

\* TorrentManager.queue_down and queue_bottom
queue_towards_bottom(s, t, command) ==
  IF queue_position(s, t) = Cardinality(s.queued_torrents) - 1
  THEN [s |-> s, res |-> "False"]
  ELSE [s |-> queue_command(s, t, command), res |-> "True"]

queue_call(s, t, op) ==
  CASE op = "queue_top" -> queue_towards_top(s, t, "handle.queue_position_top")
    [] op = "queue_up" -> queue_towards_top(s, t, "handle.queue_position_up")
    [] op = "queue_down" -> queue_towards_bottom(s, t, "handle.queue_position_down")
    [] op = "queue_bottom" -> queue_towards_bottom(s, t, "handle.queue_position_bottom")

\* the ranks the engine gives the jobs of ranked, in the order given
Ranks(ranked, order) ==
  [t \in Ids |-> IF t \in ranked
                 THEN (CHOOSE i \in DOMAIN order : order[i] = t) - 1
                 ELSE -1]

\* a registered job that downloads or seeds; seen: the finished alert of a
\* seed has been handled
QueueTorrent(h, seen) ==
  update_state([TorrentIn("") EXCEPT !.is_finished = seen], h, FALSE).torrent

\* Both jobs registered.  Any of them has become a seed in the engine; the
\* finished alert of a seed has been handled or is still posted.  The engine
\* ranks every job, or only those that are not seeds.
InitQueue ==
  /\ \E seeds \in SUBSET Ids, seen \in SUBSET Ids, ranked \in SUBSET Ids :
       /\ seen \subseteq seeds
       /\ ranked \in {Ids, Ids \ seeds}
       /\ \E order \in Orders(ranked) :
            session = [t \in Ids |->
                         [HandleIn(IF t \in seeds THEN "Seeding" ELSE "Downloading",
                                   "", FALSE, FALSE)
                            EXCEPT !.queue_position = Ranks(ranked, order)[t]]]
       /\ torrents = [t \in Ids |-> QueueTorrent(session[t], t \in seen)]
       /\ alerts = [t \in Ids |-> IF t \in seeds \ seen
                                   THEN <<"torrent_finished">> ELSE <<>>]
       /\ queued_torrents = Ids \ seen
  /\ session_paused = FALSE
  /\ shutdown_torrent_pause_list = <<>>
  /\ num_resume_data = 0
  /\ resume_data = EmptyMap
  /\ fastresume_file = EmptyMap
  /\ state_file = [t \in Ids |-> TorrentState(torrents[t])]
  /\ torrent_files = Ids
  /\ timers_running = TRUE
  /\ pc = "running"
  /\ wait = TRUE
  /\ save_resume_data_list = {}
  /\ lastop = Op("start", NoId, "", "")
  /\ oplog = <<>>
  /\ ops = 0
  /\ delivered = NoneDelivered
  /\ renaming = [t \in Ids |-> <<>>]

QueueCall(t, op) ==
  /\ Budget
  /\ pc = "running"
  /\ t \in DOMAIN torrents
  /\ \E r \in {queue_call(St, t, op)} :
       /\ Commit(r.s)
       /\ lastop' = Op(op, t, r.res, "")
  /\ UNCHANGED <<delivered, renaming>>
  /\ UNCHANGED StopLocals

\* save_state: torrent.get_queue_position() of every job
saved_queue(s) == [t \in DOMAIN s.torrents |-> queue_position(s, t)]

\* state.torrents.sort(key=operator.attrgetter("queue")): the orders a sort
\* by the saved position can give, jobs of equal position in any order
sorted_by_queue(saved) ==
  {o \in Orders(DOMAIN saved) :
     \A i, j \in DOMAIN o : i < j => saved[o[i]] <= saved[o[j]]}

\* add for each saved job in turn: the engine puts a new handle at the
\* bottom of its queue, and add moves it to the top when the configuration
\* has queue_new_to_top.  The result is the engine's queue, top first.
RECURSIVE load_queue(_, _, _)
load_queue(order, queue, queue_new_to_top) ==
  IF order = <<>> THEN queue
  ELSE load_queue(Tail(order),
                  IF queue_new_to_top THEN <<Head(order)>> \o queue
                  ELSE Append(queue, Head(order)),
                  queue_new_to_top)

\* the queue positions after save_state, a restart and load_state into the
\* empty registry
reloaded(s, order, queue_new_to_top) ==
  [s EXCEPT !.session =
     [t \in DOMAIN s.session |->
        [s.session[t] EXCEPT !.queue_position =
           Ranks(Ids, load_queue(order, <<>>, queue_new_to_top))[t]]]]

\* save_state, then load_state in a new process
Reload(order, queue_new_to_top) ==
  /\ Budget
  /\ pc = "running"
  /\ order \in sorted_by_queue(saved_queue(St))
  /\ Commit(reloaded(St, order, queue_new_to_top))
  /\ lastop' = Op("load_state", NoId, "", IF queue_new_to_top THEN "top" ELSE "bottom")
  /\ UNCHANGED <<delivered, renaming>>
  /\ UNCHANGED StopLocals

NextQueue ==
  \/ \E t \in Ids, op \in QueueOps : QueueCall(t, op)
  \/ \E order \in Orders(Ids), queue_new_to_top \in BOOLEAN : Reload(order, queue_new_to_top)
  \/ NextAlert

SpecQueue == InitQueue /\ [][NextQueue]_vars

\* ------------------------------------------- the writes and the file system
\* what torrents.fastresume holds from earlier runs
DiskBlobs == {"r0"}

\* A running session with both jobs registered; torrents.fastresume holds the
\* blobs an earlier flush wrote for any part of the ids, torrents.state is the
\* snapshot of an earlier moment (before the jobs were added) or of now.
InitIO ==
  /\ session \in [Ids -> {HandleIn("Downloading", "", paused, FALSE) : paused \in BOOLEAN}]
  /\ torrents = [t \in Ids |-> AlertTorrent(session[t], FALSE, FALSE)]
  /\ session_paused = FALSE
  /\ alerts = [t \in Ids |-> <<>>]
  /\ queued_torrents = Ids
  /\ shutdown_torrent_pause_list = <<>>
  /\ num_resume_data = 0
  /\ resume_data = EmptyMap
  /\ \E on_disk \in SUBSET Ids : fastresume_file \in [on_disk -> DiskBlobs]
  /\ state_file \in {EmptyMap, [t \in Ids |-> TorrentState(torrents[t])]}
  /\ torrent_files = Ids
  /\ timers_running = TRUE
  /\ pc = "running"
  /\ wait = TRUE
  /\ save_resume_data_list = {}
  /\ lastop = Op("start", NoId, "", "")
  /\ oplog = <<>>
  /\ ops = 0
  /\ delivered = NoneDelivered
  /\ renaming = [t \in Ids |-> <<>>]

\* What an operation leaves when the file system did io to its writes: a
\* process that died leaves the files and nothing else.
CommitIO(s) ==
  IF s.crashed
  THEN /\ fastresume_file' = s.fastresume_file
       /\ state_file' = s.state_file
       /\ oplog' = s.oplog
       /\ pc' = "crashed"
       /\ UNCHANGED <<torrents, session, session_paused, alerts, queued_torrents,
                      shutdown_torrent_pause_list, num_resume_data, resume_data,
                      torrent_files, timers_running>>
  ELSE Commit(s) /\ UNCHANGED pc

\* core's save_resume_data for some of the jobs, or the timer's for all
SaveResumeDataOf(ids) ==
  /\ Budget
  /\ pc = "running"
  /\ ids # {}
  /\ \E s \in {save_resume_data(St, ids)} : Fits(s) /\ Commit(s)
  /\ lastop' = Op("save_resume_data", NoId, "", "")
  /\ UNCHANGED <<delivered, renaming>>
  /\ UNCHANGED StopLocals

HandleAlertIO(t, type, blob, io) ==
  /\ UNCHANGED ops
  /\ pc = "running"
  /\ alerts[t] # <<>>
  /\ \/ type = Head(alerts[t])
     \/ type = "save_resume_data_failed" /\ Head(alerts[t]) = "save_resume_data"
  /\ \E s \in {dispatch([St EXCEPT !.alerts[t] = Tail(@), !.io = io], t, type, blob)} :
       Fits(s) /\ CommitIO(s)
  /\ lastop' = Op(type, t, "", io)
  /\ UNCHANGED <<delivered, renaming, wait, save_resume_data_list>>

SaveStateIO(io) ==
  /\ Budget
  /\ pc = "running"
  /\ CommitIO(save_state([St EXCEPT !.io = io]))
  /\ lastop' = Op("save_state", NoId, save_state_returns(St), io)
  /\ UNCHANGED <<delivered, renaming, wait, save_resume_data_list>>

NextIO ==
  \/ \E ids \in SUBSET Ids : SaveResumeDataOf(ids)
  \/ \E t \in Ids, type \in {"save_resume_data", "save_resume_data_failed"},
        blob \in Blobs, io \in IoOutcomes :
       HandleAlertIO(t, type, blob, io)
  \/ \E io \in IoOutcomes : SaveStateIO(io)

SpecIO == InitIO /\ [][NextIO]_vars


\* ================================================================== properties
Waiting == {t \in DOMAIN torrents : torrents[t].waiting_on_resume_data}

\* the place of the first entry of kind k in the log, 0 when there is none
First(log, k) ==
  IF \E i \in 1..Len(log) : log[i].k = k
  THEN Min({i \in 1..Len(log) : log[i].k = k})
  ELSE 0

Urls(trackers) == {trackers[i] : i \in 1..Len(trackers)}

\* C1: when stop returns, the recovery-data file holds an entry for every job
\* that was unpaused when stop began.
C1_AllUnpausedOnDisk ==
  pc = "stopped" => save_resume_data_list \subseteq DOMAIN fastresume_file

\* C2: when stop returns, the pending-pause list is empty and no registered
\* job is waiting on resume data.
C2_NothingPendingAtReturn ==
  pc = "stopped" => (shutdown_torrent_pause_list = <<>> /\ Waiting = {})

\* C3: after update_state on a handle that reports an error, the state is
\* Error, whatever the state was and whatever the phase and flags are.
C3_ErrorWins ==
  (lastop.op = "update_state" /\ session[lastop.id].error # "")
    => torrents[lastop.id].state = "Error"

C3_Witness ==
  /\ lastop.op = "update_state"
  /\ session[lastop.id].error # ""
  /\ session[lastop.id].ltstate = "Checking"
  /\ session[lastop.id].paused
  /\ session_paused
  /\ torrents[lastop.id].state = "Error"

\* C4: after update_state on a handle that reports no error, in every phase:
\* paused, auto-managed and session not paused gives Queued; session paused,
\* or paused and not auto-managed, gives Paused.
C4_OverridesWin ==
  (lastop.op = "update_state" /\ session[lastop.id].error = "")
    => LET h == session[lastop.id]
           state == torrents[lastop.id].state
       IN /\ (h.paused /\ h.auto_managed /\ ~session_paused) => state = "Queued"
          /\ (session_paused \/ (h.paused /\ ~h.auto_managed)) => state = "Paused"

\* two records of one entity: they differ in the tracker list at most
SameEntity(a, b) == [a EXCEPT !.trackers = <<>>] = [b EXCEPT !.trackers = <<>>]

\* C5: an add of an id the registry holds, on any path and by any caller,
\* leaves the registry's ids as they were and every entity the one it was:
\* nothing but the tracker list of an entity changes.
C5_NoSecondEntity ==
  [][(lastop'.op = "add" /\ lastop'.id \in DOMAIN torrents)
       => /\ DOMAIN torrents' = DOMAIN torrents
          /\ \A t \in DOMAIN torrents : SameEntity(torrents'[t], torrents[t])]_vars

C5_Witness ==
  /\ lastop.op = "add"
  /\ lastop.id \in lastop.reg
  /\ lastop.arg = "magnet"
  /\ lastop.c.user # torrents[lastop.id].owner
  /\ DOMAIN torrents = lastop.reg

\* C6: an add of a descriptor whose id the registry holds leaves, for every
\* caller, the job's old trackers in place followed by the descriptor's new
\* ones, and emits no TorrentAddedEvent.
C6_MergeForEveryCaller ==
  [][(lastop'.op = "add" /\ lastop'.arg \in {"torrent_info", "filedump"}
        /\ lastop'.id \in DOMAIN torrents)
       => /\ lastop'.id \in DOMAIN torrents'
          /\ Urls(lastop'.trackers) \subseteq Urls(torrents'[lastop'.id].trackers)
          /\ Len(torrents'[lastop'.id].trackers) >= Len(torrents[lastop'.id].trackers)
          /\ SubSeq(torrents'[lastop'.id].trackers, 1, Len(torrents[lastop'.id].trackers))
               = torrents[lastop'.id].trackers
          /\ First(oplog', "TorrentAddedEvent") = 0]_vars

\* C7: remove of an id the registry does not hold raises InvalidTorrentError,
\* changes nothing in memory or on disk and emits nothing.
C7_RemoveUnknown ==
  [][(lastop'.op = "remove" /\ lastop'.id \notin DOMAIN torrents)
       => /\ lastop'.res = "InvalidTorrentError"
          /\ oplog' = <<>>
          /\ UNCHANGED <<torrents, session, alerts, queued_torrents,
                         num_resume_data, resume_data, fastresume_file,
                         state_file, torrent_files>>]_vars

C7_Witness ==
  /\ lastop.op = "remove"
  /\ lastop.id \notin lastop.reg
  /\ lastop.res = "InvalidTorrentError"
  /\ torrents # EmptyMap

\* C8: after remove returns true, neither the recovery-data file nor the
\* unflushed batch holds an entry for the id.
C8_NoRecoveryDataLeft ==
  (lastop.op = "remove" /\ lastop.res = "True")
    => (lastop.id \notin DOMAIN fastresume_file /\ lastop.id \notin DOMAIN resume_data)

\* C9: a successful remove emits PreTorrentRemovedEvent while the registry
\* and the session hold the id, then deregisters from the engine, then
\* discards the entity, then saves the state and emits TorrentRemovedEvent.
C9_RemoveOrder ==
  (lastop.op = "remove" /\ lastop.res = "True")
    => LET pre == First(oplog, "PreTorrentRemovedEvent")
           eng == First(oplog, "session.remove_torrent")
           del == First(oplog, "del torrents[id]")
           sav == First(oplog, "write torrents.state")
           rem == First(oplog, "TorrentRemovedEvent")
       IN /\ 0 < pre /\ pre < eng /\ eng < del /\ del < sav /\ sav < rem
          /\ lastop.id \in oplog[pre].reg
          /\ lastop.id \in oplog[pre].ses
          /\ lastop.id \in oplog[eng].reg
          /\ lastop.id \notin oplog[eng].ses
          /\ lastop.id \notin oplog[sav].reg
          /\ lastop.id \notin oplog[rem].reg

C9_Witness ==
  /\ lastop.op = "remove"
  /\ lastop.res = "True"
  /\ Len(oplog) >= 5
  /\ torrents # EmptyMap

\* C10: the active-queue set holds only ids of the registry.
C10_QueuedAreRegistered == queued_torrents \subseteq DOMAIN torrents

\* C11: after one update in which no engine call failed, every torrent that
\* was due at its start (stop_at_ratio, a state outside Checking, Allocating,
\* Paused and Queued, finished, ratio reached) is out of the registry when
\* remove_at_ratio is set, and is paused otherwise.
C11_SweepHandlesAllDue ==
  [][(lastop'.op = "update" /\ lastop'.arg = "ok")
       => \A t \in DOMAIN torrents :
            update_due(torrents[t], session[t])
              => IF torrents[t].remove_at_ratio
                 THEN t \notin DOMAIN torrents'
                 ELSE t \in DOMAIN session' /\ session'[t].paused]_vars

\* C12: handling an alert of any type whose id is not in the registry changes
\* neither the registry, the session, the counters, the queues nor the files,
\* and emits, commands and writes nothing.
C12_UnknownIdAlertIgnored ==
  [][(lastop'.op \in AllAlertTypes /\ lastop'.id \notin DOMAIN torrents) =>
       /\ UNCHANGED <<torrents, session, session_paused, queued_torrents,
                      shutdown_torrent_pause_list, num_resume_data, resume_data,
                      fastresume_file, state_file, torrent_files, timers_running>>
       /\ oplog' = <<>>]_vars

\* the step is a get_status call with diff
DiffCall == lastop'.op = "get_status" /\ lastop'.arg.diff

\* C13: a get_status call with diff that directly follows one by the same
\* session for the same job with the same keys returns the empty dictionary;
\* the first call with diff of a session the job has not seen returns every
\* requested field.
C13_DiffTwiceEmptyFirstFull ==
  [][DiffCall =>
       /\ (lastop.op = "get_status" /\ lastop.id = lastop'.id /\ lastop.arg = lastop'.arg)
            => DOMAIN lastop'.res = {}
       /\ lastop'.arg.session_id \notin DOMAIN torrents[lastop'.id].prev_status
            => lastop'.res = status_dict(St, lastop'.id, lastop'.arg.keys)]_vars

\* one session has asked for everything and got the three fields of
\* full_status and the one of fns; then the other has asked twice for the
\* same two fields and got nothing the second time
C13_Witness ==
  /\ lastop.op = "get_status" /\ lastop.arg.diff
  /\ lastop.arg.keys = {"state", "paused"}
  /\ DOMAIN lastop.res = {}
  /\ DOMAIN delivered[lastop.id][lastop.arg.session_id] = {"state", "paused"}
  /\ \E sid \in SessionIds :
       DOMAIN delivered[lastop.id][sid] = {"state", "paused", "tracker_status", "is_seed"}
  /\ ops = 3

\* C14: a get_status call with diff returns a field only if the session was
\* never given the field or was last given another value for it.
C14_DiffOnlyWhatChanged ==
  [][DiffCall =>
       \A key \in DOMAIN lastop'.res :
         \/ key \notin DOMAIN delivered[lastop'.id][lastop'.arg.session_id]
         \/ delivered[lastop'.id][lastop'.arg.session_id][key] # lastop'.res[key]]_vars

IsFolderRenamed(e) == e.k = "TorrentFolderRenamedEvent"

IsFileRenamed(e) == e.k = "TorrentFileRenamedEvent"

\* the step handles the file_renamed alert of a file a folder rename of a
\* registered job waits for
FolderFileRenamed ==
  /\ lastop'.op \in Range(FileRenamedTypes)
  /\ lastop'.id \in DOMAIN torrents
  /\ oldest_waiting(renaming[lastop'.id], file_renamed_index(lastop'.op)) > 0

\* the folder rename the alert handled in this step answers
Answered ==
  renaming[lastop'.id][oldest_waiting(renaming[lastop'.id], file_renamed_index(lastop'.op))]

\* C15: of the file_renamed alerts of a folder rename none produces a
\* TorrentFileRenamedEvent; the last one produces exactly one
\* TorrentFolderRenamedEvent, with the folder and the new folder of that
\* rename, and the ones before it produce none.
C15_FolderRenamedOnLastAlert ==
  [][FolderFileRenamed =>
       /\ SelectSeq(oplog', IsFileRenamed) = <<>>
       /\ IF Answered.left = {file_renamed_index(lastop'.op)}
          THEN /\ Len(SelectSeq(oplog', IsFolderRenamed)) = 1
               /\ SelectSeq(oplog', IsFolderRenamed)[1].arg
                    = <<Answered.folder, Answered.new_folder>>
          ELSE SelectSeq(oplog', IsFolderRenamed) = <<>>]_vars

IsStateChanged(e) == e.k = "TorrentStateChangedEvent"

\* the state update_state computes for a registered job from its handle
Recomputed(t) == update_state(torrents[t], session[t], session_paused).torrent.state

\* the step handles a paused, resumed or state-changed alert of a registered job
StateAlertHandled ==
  /\ lastop'.op \in {"torrent_paused", "torrent_resumed", "state_changed"}
  /\ lastop'.id \in DOMAIN torrents

\* the step is an add that left the handle paused
AddedPaused ==
  /\ lastop'.op = "add" /\ lastop'.res = "id"
  /\ First(oplog', "handle.resume") = 0

\* the step handles the resumed alert of a job in state Paused whose handle
\* downloads and is not held paused by the user or by the session
ResumedFromPaused ==
  /\ lastop'.op = "torrent_resumed"
  /\ lastop'.id \in DOMAIN torrents
  /\ torrents[lastop'.id].state = "Paused"
  /\ session[lastop'.id].ltstate \in {"Downloading", "Downloading Metadata"}
  /\ session[lastop'.id].error = ""
  /\ ~session_paused
  /\ ~session[lastop'.id].paused \/ session[lastop'.id].auto_managed

\* C16: the handlers of the paused, resumed and state-changed alerts leave the
\* job in the recomputed state and emit one TorrentStateChangedEvent with that
\* state when it differs from the state before, and none when it does not; a
\* job added paused is in state Paused, and the resumed alert of a downloading
\* job in state Paused leaves it Downloading or Queued with one
\* TorrentStateChangedEvent.
C16_StateChangedOnceIfChanged ==
  [][/\ StateAlertHandled =>
          /\ torrents'[lastop'.id].state = Recomputed(lastop'.id)
          /\ Len(SelectSeq(oplog', IsStateChanged))
               = IF Recomputed(lastop'.id) # torrents[lastop'.id].state THEN 1 ELSE 0
          /\ \A i \in DOMAIN oplog' :
               IsStateChanged(oplog'[i]) =>
                 oplog'[i].id = lastop'.id /\ oplog'[i].arg = Recomputed(lastop'.id)
     /\ AddedPaused => torrents'[lastop'.id].state = "Paused"
     /\ ResumedFromPaused =>
          /\ torrents'[lastop'.id].state \in {"Downloading", "Queued"}
          /\ Len(SelectSeq(oplog', IsStateChanged)) = 1]_vars

\* the handle of a job in state Paused was resumed and downloads; the handler
\* of its resumed alert has moved the job to Downloading with one event
C16_Witness ==
  /\ lastop.op = "torrent_resumed"
  /\ lastop.id \in DOMAIN torrents
  /\ torrents[lastop.id].state = "Downloading"
  /\ Len(SelectSeq(oplog, IsStateChanged)) = 1

\* the step is an add that was given neither a descriptor, nor bytes, nor a
\* magnet link, nor a state
AddWithNothing == lastop'.op = "add" /\ lastop'.arg = "none"

\* the step is an add whose engine call gave no valid handle
AddRefused ==
  /\ lastop'.op = "add"
  /\ First(oplog', "AlertManager.pause") > 0
  /\ First(oplog', "session.add_torrent") = 0

\* C17: an add with none of its four sources fails with InvalidArgument, and
\* an add the engine refuses raises the engine's error.
C17_NothingCreatedRaises ==
  [][/\ AddWithNothing => lastop'.res = "InvalidArgument"
     /\ AddRefused => lastop'.res = "RuntimeError"]_vars

\* the places of the entries of kind k in the log
Places(log, k) == {i \in DOMAIN log : log[i].k = k}

\* the step is an add that went as far as pausing the alert dispatcher
AddPausedAlerts == lastop'.op = "add" /\ Places(oplog', "AlertManager.pause") # {}

\* C18: add pauses the alert dispatcher before the engine add and resumes it
\* once: after the Torrent is in the registry when the engine gave a handle,
\* right after the refusal when it gave none. An add that returns earlier
\* never pauses it. So every add leaves the dispatcher resumed.
C18_AlertsHeldUntilRegistered ==
  [][lastop'.op = "add" =>
       /\ Cardinality(Places(oplog', "AlertManager.pause")) <= 1
       /\ Cardinality(Places(oplog', "AlertManager.resume"))
            = Cardinality(Places(oplog', "AlertManager.pause"))
       /\ Places(oplog', "session.add_torrent") # {} => AddPausedAlerts
       /\ AddPausedAlerts =>
            /\ First(oplog', "AlertManager.pause") < First(oplog', "AlertManager.resume")
            /\ \A i \in Places(oplog', "session.add_torrent") :
                 /\ First(oplog', "AlertManager.pause") < i
                 /\ i < First(oplog', "AlertManager.resume")
                 /\ lastop'.id \in oplog'[First(oplog', "AlertManager.resume")].reg
                 /\ lastop'.id \notin oplog'[i].reg
            /\ Places(oplog', "session.add_torrent") = {}
                 => First(oplog', "AlertManager.resume") = First(oplog', "AlertManager.pause") + 1]_vars

\* an add has put a Torrent in the registry and resumed the dispatcher
C18_Witness ==
  /\ lastop.op = "add" /\ lastop.res = "id"
  /\ lastop.id \in DOMAIN torrents
  /\ Places(oplog, "session.add_torrent") # {}
  /\ lastop.id \in oplog[First(oplog, "AlertManager.resume")].reg

\* the commands an add must not give the engine before the Torrent is registered
IsResumeOrAutoManage(e) ==
  e.k = "handle.resume" \/ (e.k = "handle.auto_managed" /\ e.arg = "True")

\* C19: the engine add of every add asks for a paused handle that is not
\* auto-managed; add gives the engine no resume and no auto_managed(True)
\* while the Torrent is not in the registry, and no resume at all when
\* add_paused is set.
C19_AddedPausedUntilRegistered ==
  [][lastop'.op = "add" =>
       \A i \in DOMAIN oplog' :
         /\ oplog'[i].k = "session.add_torrent" => oplog'[i].arg = add_torrent_params
         /\ IsResumeOrAutoManage(oplog'[i]) => lastop'.id \in oplog'[i].reg
         /\ oplog'[i].k = "handle.resume" => ~lastop'.add_paused]_vars

\* an add without add_paused has resumed the handle after registering the
\* Torrent, and the state holds another job that was added with add_paused
C19_Witness ==
  /\ lastop.op = "add" /\ lastop.res = "id" /\ ~lastop.add_paused
  /\ Places(oplog, "handle.resume") # {}
  /\ Places(oplog, "session.add_torrent") # {}
  /\ ~session[lastop.id].paused
  /\ \E t \in DOMAIN session \ {lastop.id} : session[t].paused

\* C20: between operations a Torrent is in the registry exactly when the
\* session holds its handle.
C20_RegistryMatchesSession == DOMAIN torrents = DOMAIN session

\* a remove whose engine call failed has left the job in the registry and
\* in the session, after another job had been removed from both
C20_Witness ==
  /\ lastop.op = "remove" /\ lastop.res = "False"
  /\ lastop.id \in DOMAIN torrents /\ lastop.id \in DOMAIN session
  /\ \E t \in Ids : t \notin DOMAIN torrents /\ t \notin DOMAIN session

\* the writes of torrents.fastresume the last operation made
FastresumeWrites(log) == {i \in DOMAIN log : log[i].k = "write torrents.fastresume"}

\* C21: torrents.fastresume is written only when the counter of pending
\* recovery-data requests is exactly zero and the in-memory batch is not
\* empty.
C21_FlushOnlyWhenNonePendingAndBatch ==
  \A i \in FastresumeWrites(oplog) :
    oplog[i].arg.num = 0 /\ oplog[i].arg.batch # EmptyMap

\* the answer to the last pending request has flushed a batch of two blobs;
\* the answer before it had left the file alone
C21_Witness ==
  /\ lastop.op = "save_resume_data"  /\ lastop.id \in Ids
  /\ FastresumeWrites(oplog) # {}
  /\ \A i \in FastresumeWrites(oplog) : Cardinality(DOMAIN oplog[i].arg.batch) = 2
  /\ num_resume_data = 0 /\ resume_data = EmptyMap

\* the last operation handled an alert and wrote torrents.fastresume whole
AlertFlushed(op, log) ==
  /\ op.op \in {"save_resume_data", "save_resume_data_failed"} /\ op.id \in Ids
  /\ \E i \in FastresumeWrites(log) : log[i].arg.io = "ok"

\* the batch a flush of the log started from
FlushBatch(log) == log[First(log, "write torrents.fastresume")].arg.batch

\* C22: a flush triggered by an alert merges the batch into the map on disk:
\* an id that was on disk and is not in the batch keeps its blob, an id of the
\* batch maps to the batch's blob, and the in-memory batch is empty afterwards.
C22_FlushMergesIntoDisk ==
  [][AlertFlushed(lastop', oplog') =>
       /\ \A t \in DOMAIN fastresume_file \ DOMAIN FlushBatch(oplog') :
            t \in DOMAIN fastresume_file' /\ fastresume_file'[t] = fastresume_file[t]
       /\ \A t \in DOMAIN FlushBatch(oplog') :
            t \in DOMAIN fastresume_file' /\ fastresume_file'[t] = FlushBatch(oplog')[t]
       /\ resume_data' = EmptyMap]_vars

\* an alert has flushed a batch of one id onto a file that held both ids:
\* the file still holds the other id's old blob, and the batch's blob has
\* replaced the old one of its id
C22_Witness ==
  /\ AlertFlushed(lastop, oplog)
  /\ DOMAIN FlushBatch(oplog) = {lastop.id}
  /\ \E d \in {oplog[First(oplog, "write torrents.fastresume")].arg.disk} :
       /\ DOMAIN d = Ids
       /\ d[lastop.id] # FlushBatch(oplog)[lastop.id]
       /\ \A t \in Ids \ {lastop.id} : fastresume_file[t] = d[t]
  /\ fastresume_file[lastop.id] = FlushBatch(oplog)[lastop.id]

\* the process died in this step
Crashes == pc # "crashed" /\ pc' = "crashed"

\* C23: for the registry snapshot and for the recovery-data file, a crash in
\* the middle of a write leaves the canonical file with its complete old
\* content or with the complete new content.
C23_CrashLeavesOldOrNew ==
  [][Crashes =>
       \A i \in DOMAIN oplog' :
         /\ oplog'[i].k = "write torrents.state"
              => state_file' \in {state_file, oplog'[i].arg.data}
         /\ oplog'[i].k = "write torrents.fastresume"
              => fastresume_file' \in {fastresume_file, oplog'[i].arg.data}]_vars

\* C24: a failed write does not propagate and loses nothing: when the write
\* of torrents.fastresume fails the in-memory batch still holds the entries
\* that were not flushed, and when the write of the snapshot fails save_state
\* returns true and torrents.state is unchanged.
C24_FailedWriteLosesNothing ==
  [][\A i \in DOMAIN oplog' :
       /\ (oplog'[i].k = "write torrents.fastresume" /\ oplog'[i].arg.io = "fails")
            => resume_data' = oplog'[i].arg.batch
       /\ (oplog'[i].k = "write torrents.state" /\ oplog'[i].arg.io = "fails")
            => lastop'.res = "True" /\ state_file' = state_file]_vars

\* stop leaves its wait loop and returns
StopReturns == pc = "stop_drain" /\ pc' = "stopped"

\* C25: stop persists the final registry snapshot after the wait loop has
\* completed: no pause command, recovery-data request or alert handling of
\* the shutdown comes after the last write of torrents.state.  Either the
\* snapshot is written in the step in which stop returns, or stop paused
\* nothing, requested nothing and its last drain handled no alert.
C25_SnapshotAfterWait ==
  [][StopReturns =>
       \/ /\ oplog' # oplog
          /\ oplog' # <<>>
          /\ oplog'[Len(oplog')].k = "write torrents.state"
       \/ /\ save_resume_data_list = {}
          /\ lastop.op \notin AlertTypes]_vars

\* C26: stop terminates: when every pause command is answered by a paused
\* alert and every recovery-data request by a saved or failed alert, and the
\* alerts are handled, the wait loop exits.
C26_StopTerminates == (pc \in {"stop_check", "stop_drain"}) ~> (pc = "stopped")

\* stop has returned after it paused a job, requested its recovery data and
\* handled the answers in its wait loop
C26_Witness ==
  /\ pc = "stopped"
  /\ save_resume_data_list # {}
  /\ shutdown_torrent_pause_list = <<>>
  /\ \A t \in Ids : alerts[t] = <<>>

\* the kinds of the entries of a log
Kinds(log) == {log[i].k : i \in DOMAIN log}

\* this step handles a finished alert of a registered job
FinishedHandled == lastop'.op = "torrent_finished" /\ lastop'.id \in DOMAIN torrents

\* C27: a finished alert for a job whose downloaded payload is zero issues no
\* move-storage command, no finished notification and no recovery-data
\* request: it sets the finished flag, recomputes the state and takes the id
\* out of the queue set, and nothing else.  With payload and the flag false
\* before, move-storage is issued only when move-on-completion is enabled and
\* its path differs from the current save path.
C27_FinishedWithoutPayloadIsQuiet ==
  [][FinishedHandled =>
       /\ session[lastop'.id].payload = 0 =>
            /\ Kinds(oplog') \cap {"handle.move_storage", "TorrentFinishedEvent",
                                   "handle.save_resume_data"} = {}
            /\ torrents' = [torrents EXCEPT ![lastop'.id] =
                              update_state([@ EXCEPT !.is_finished = TRUE],
                                           session[lastop'.id], FALSE).torrent]
            /\ queued_torrents' = queued_torrents \ {lastop'.id}
            /\ alerts' = [alerts EXCEPT ![lastop'.id] = Tail(@)]
            /\ UNCHANGED <<session, num_resume_data, resume_data, fastresume_file,
                           state_file>>
       /\ (session[lastop'.id].payload # 0 /\ ~torrents[lastop'.id].is_finished
           /\ "handle.move_storage" \in Kinds(oplog'))
            => /\ torrents[lastop'.id].move_completed
               /\ torrents[lastop'.id].move_completed_path
                    # torrents[lastop'.id].download_location]_vars

\* the finished alert of a job without payload, with move-on-completion to
\* another folder, has been handled quietly; the other job, with payload,
\* has had its storage moved
C27_Witness ==
  /\ lastop.op = "torrent_finished" /\ lastop.id \in DOMAIN torrents
  /\ session[lastop.id].payload = 0
  /\ torrents[lastop.id].move_completed
  /\ torrents[lastop.id].move_completed_path # torrents[lastop.id].download_location
  /\ torrents[lastop.id].is_finished /\ lastop.id \notin queued_torrents
  /\ oplog = <<>>
  /\ \E t \in Ids \ {lastop.id} :
       session[t].payload # 0 /\ torrents[t].download_location = "dir2"

\* the jobs whose finished flag this step takes from true to false
Unfinished ==
  {t \in DOMAIN torrents \cap DOMAIN torrents' :
     torrents[t].is_finished /\ ~torrents'[t].is_finished}

\* C28: is_finished goes from true to false only when a file of priority 0
\* is given a priority above 0; no alert handler and no other operation
\* resets it.
C28_FinishedResetOnlyByPriorities ==
  [][\A t \in Unfinished :
       lastop'.op = "set_file_priorities" /\ lastop'.id = t /\ lastop'.res = "raised"]_vars

\* the handle of job t is paused with an engine error and is not auto-managed
ErrorHeld(t) ==
  session[t].error # "" /\ session[t].paused /\ ~session[t].auto_managed

\* C29: once update_state has seen an engine error on a paused handle, the
\* handle is not auto-managed, and it stays so through every operation
\* (option setters, the periodic update, alert handling) until the user
\* resumes the job or forces a recheck.
C29_ErrorKeepsAutoManagedOff ==
  [][\A t \in DOMAIN session \cap DOMAIN session' :
       /\ (lastop'.op = "update_state" /\ lastop'.id = t
           /\ session[t].error # "" /\ session[t].paused)
            => ~session'[t].auto_managed
       /\ (ErrorHeld(t) /\ session'[t].auto_managed)
            => (lastop'.op \in {"resume", "force_recheck"} /\ lastop'.id = t)]_vars

\* after update_state took auto-management off a paused handle in error, the
\* user has set the auto_managed option: the option is stored and the
\* handle is still not auto-managed
C29_Witness ==
  /\ lastop.op = "set_auto_managed" /\ lastop.arg = "True"
  /\ lastop.id \in DOMAIN torrents
  /\ torrents[lastop.id].state = "Error"
  /\ torrents[lastop.id].auto_managed
  /\ ErrorHeld(lastop.id)

\* the engine command of the last operation raised
Raised(log) == "raises" \in Kinds(log)

\* C30: pause, resume, force_reannounce, scrape_tracker, connect_peer,
\* move_storage and force_recheck return false, and raise nothing, when
\* their engine call raises, and return true only when the engine call
\* succeeded.
C30_EngineFailureReturnsFalse ==
  lastop.op \in EntityOps =>
    /\ Raised(oplog) => lastop.res = "False"
    /\ lastop.res = "True" => ~Raised(oplog)

\* the operations that set an option the engine holds too
OptionOps == {"set_auto_managed", "set_file_priorities", "pause", "resume"}

\* C31: after an option setter, a pause or a resume, the stored value of
\* every option the engine holds equals the engine's value: the stored
\* auto_managed option is the handle's auto-managed flag, and the stored
\* file priorities are the handle's.
C31_StoredOptionsMatchEngine ==
  (lastop.op \in OptionOps /\ lastop.id \in DOMAIN torrents) =>
    /\ torrents[lastop.id].auto_managed = session[lastop.id].auto_managed
    /\ torrents[lastop.id].file_priorities = session[lastop.id].file_priorities

\* the engine's reordering commands in a log
Reorderings(log) ==
  {i \in DOMAIN log :
     log[i].k \in {"handle.queue_position_top", "handle.queue_position_up",
                   "handle.queue_position_down", "handle.queue_position_bottom"}}

\* the boundary of a queue operation is reached for job t
AtBoundary(op, t) ==
  IF op \in {"queue_top", "queue_up"}
  THEN session[t].queue_position = 0
  ELSE \A u \in DOMAIN session : session[u].queue_position <= session[t].queue_position

\* C32: queue_top and queue_up return false and give the engine no command
\* exactly when the job is at position 0, queue_down and queue_bottom
\* exactly when the job holds the last position among the jobs; otherwise
\* each gives the engine exactly one reordering command and returns true.
C32_QueueOpsStopAtBoundary ==
  [][lastop'.op \in QueueOps =>
       IF AtBoundary(lastop'.op, lastop'.id)
       THEN lastop'.res = "False" /\ Reorderings(oplog') = {}
       ELSE lastop'.res = "True" /\ Cardinality(Reorderings(oplog')) = 1]_vars

\* C33: save_state followed by load_state into an empty registry restores
\* the jobs in the relative queue order they had when saved, whatever the
\* configuration, queue_new_to_top included.
C33_ReloadKeepsQueueOrder ==
  [][lastop'.op = "load_state" =>
       \A a, b \in DOMAIN session :
         session[a].queue_position < session[b].queue_position
           => session'[a].queue_position < session'[b].queue_position]_vars

\* C34: get_torrent_list returns every registered id to an administrator
\* and, to any other caller, exactly the ids whose owner is the caller or
\* whose shared flag is set; the call leaves the registry as it was.
C34_ListShowsOwnAndShared ==
  [][lastop'.op = "get_torrent_list" =>
       /\ torrents' = torrents
       /\ lastop'.res =
            IF lastop'.c.admin THEN DOMAIN torrents
            ELSE {t \in DOMAIN torrents :
                    torrents[t].owner = lastop'.c.user \/ torrents[t].shared}]_vars

\* a caller who is no administrator is shown a shared job of another owner
\* and not the unshared job of another owner
C34_Witness ==
  /\ lastop.op = "get_torrent_list"
  /\ ~lastop.c.admin
  /\ \E t \in lastop.res : torrents[t].owner # lastop.c.user
  /\ \E t \in DOMAIN torrents : t \notin lastop.res

\* C35: update_state called a second time on the same engine inputs leaves
\* the state and the status message as the first call left them, and the
\* state the first call computes is the same for every state held before.
C35_UpdateStateIsIdempotent ==
  [][lastop'.op = "update_state" =>
       /\ \A before \in TorrentStates :
            update_state([torrents[lastop'.id] EXCEPT !.state = before],
                         session[lastop'.id], session_paused).torrent.state
              = torrents'[lastop'.id].state
       /\ update_state(torrents'[lastop'.id], session'[lastop'.id],
                       session_paused').torrent.state
            = torrents'[lastop'.id].state
       /\ update_state(torrents'[lastop'.id], session'[lastop'.id],
                       session_paused').torrent.statusmsg
            = torrents'[lastop'.id].statusmsg]_vars

\* update_state ran on a paused handle in error: it set the state and the
\* message and switched the handle's auto_managed off
C35_Witness ==
  /\ lastop.op = "update_state"
  /\ torrents[lastop.id].state = "Error"
  /\ torrents[lastop.id].statusmsg = "disk full"
  /\ session[lastop.id].paused
  /\ ~session[lastop.id].auto_managed

\* C36: get_ratio returns -1.0 exactly when the total_done of the status it
\* reads is 0, whatever was uploaded, and all_time_upload / total_done
\* otherwise.
C36_RatioInfiniteIffNothingDone ==
  lastop.op = "get_ratio" =>
    /\ SameRatio(lastop.res, Quotient(-1, 1))
         <=> torrents[lastop.id].status.total_done = 0
    /\ torrents[lastop.id].status.total_done # 0
         => lastop.res.num * torrents[lastop.id].status.total_done
              = torrents[lastop.id].status.all_time_upload * lastop.res.den

\* get_ratio returned -1.0 for a job that has uploaded and has nothing done
C36_Witness ==
  /\ lastop.op = "get_ratio"
  /\ lastop.res = Quotient(-1, 1)
  /\ torrents[lastop.id].status.all_time_upload > 0
  /\ session[lastop.id].all_time_upload > 0
  /\ session[lastop.id].total_done = 0

\* the recovery-data requests the engine has not answered yet
OutstandingRequests ==
  UNION {{<<t, i>> : i \in {j \in DOMAIN alerts[t] : alerts[t][j] = "save_resume_data"}} :
           t \in DOMAIN alerts}

\* C37: in every reachable state num_resume_data is not negative and is the
\* number of recovery-data requests issued to the engine and not yet
\* answered by a saved or failed alert.
C37_CounterIsOutstandingRequests ==
  /\ num_resume_data >= 0
  /\ num_resume_data = Cardinality(OutstandingRequests)

\* C38: a recovery blob that a saved alert put into the batch of a
\* registered job does not stay there for ever while the process runs: when
\* the engine's answers are all handled and no further request is issued,
\* the batch is written to the recovery-data file.
C38_BatchIsEventuallyWritten ==
  \A t \in Ids :
    (pc = "running" /\ t \in DOMAIN torrents /\ t \in DOMAIN resume_data)
      ~> (pc # "running" \/ t \notin DOMAIN resume_data)

\* the alerts whose handler calls update_state
RecomputingAlerts ==
  {"torrent_paused", "torrent_resumed", "torrent_checked", "file_error",
   "torrent_finished", "state_changed"}

\* C39: when the handler of a paused, resumed, checked, file-error, finished
\* or state-changed alert leaves the job in another state than it found it
\* in, it emits a TorrentStateChangedEvent for the job.
C39_HandlersAnnounceStateChange ==
  [][(/\ lastop'.op \in RecomputingAlerts
      /\ lastop'.id \in DOMAIN torrents
      /\ lastop'.id \in DOMAIN torrents'
      /\ torrents'[lastop'.id].state # torrents[lastop'.id].state)
       => \E i \in DOMAIN oplog' :
            /\ oplog'[i].k = "TorrentStateChangedEvent"
            /\ oplog'[i].id = lastop'.id]_vars

\* C40: every TorrentStateChangedEvent(id, state) an operation emits, that
\* of Torrent.pause on a paused handle included, carries the state the job
\* is in and is emitted only when that state is not the one the job was in
\* before the operation.
C40_StateEventIsTrueAndNew ==
  [][\A i \in DOMAIN oplog' :
       (/\ oplog'[i].k = "TorrentStateChangedEvent"
        /\ oplog'[i].id \in DOMAIN torrents
        /\ oplog'[i].id \in DOMAIN torrents')
         => /\ oplog'[i].arg = torrents'[oplog'[i].id].state
            /\ torrents'[oplog'[i].id].state # torrents[oplog'[i].id].state]_vars

====
